---- MODULE Spec2Model ----
(***************************************************************************)
(* A state-machine model of eureca_building: ThermalZone (geometry floor,  *)
(* ISO 13790 / VDI 6007 parameter builds, load extraction and the two      *)
(* zone-load calculations), InternalLoad / NaturalVentilation (lazy        *)
(* nominal_value_absolute) and Schedule (validated time series).           *)
(*                                                                         *)
(* Numbers.  Python floats are modelled by exact integers and rationals.   *)
(*   - zone floor area / volume: integers in units of 5e-6, so the floor   *)
(*     1e-5 of the setters is ZoneFloor = 2 and the inputs -1, 1 are       *)
(*     non-zero values below the floor;                                    *)
(*   - surface areas, U-values and areal capacities: small integers; the   *)
(*     area 1 stands for the floored area of a zero-area surface;          *)
(*   - derived network parameters: rationals <<numerator, denominator>>;   *)
(*   - fractions of a load: hundredths; schedule values: tenths.           *)
(***************************************************************************)
EXTENDS Integers, Sequences, FiniteSets, TLC

VARIABLES
    zones,      \* zone id -> ThermalZone object
    built,      \* zone id -> completed build -> the Htr_op, Htr_w, UA_tot it left (observation)
    loads,      \* load id -> InternalLoad / NaturalVentilation object
    sched,      \* the Schedule object under construction / assignment
    surfaces,   \* the Surface class: its warning flags, the objects built, what was logged
    materials,  \* the Material / AirGapMaterial object under construction / assignment
    last_call   \* the last operation: its name, arguments, outcome and return value

vars == <<zones, built, loads, sched, surfaces, materials, last_call>>

(***************************************************************************)
(* Bounds of the model.                                                    *)
(***************************************************************************)
MaxSurfaces == 2        \* longest surface_list a zone is constructed with
MaxInput == 4           \* largest magnitude of a net_floor_area / volume argument

(***************************************************************************)
(* Program constants.                                                      *)
(***************************************************************************)
ZoneFloor == 2          \* 1e-5, in units of 5e-6
AirRhoCp == 1206        \* air_properties["density"] * air_properties["specific_heat"]
htr_ms10 == 91          \* htr_ms = 9.1, in tenths
h_is100 == 345          \* h_is = 3.45, in hundredths

\* mutant of IntTypes: every other type is taken for an inner one
IntTypesAndOthers == {"IntWall", "IntCeiling", "IntFloor", "Shading"}

ExtTypes == {"ExtWall", "GroundFloor", "Roof"}
IntTypes == {"IntWall", "IntCeiling", "IntFloor"}

Abs(x) == IF x < 0 THEN -x ELSE x

SetAttr(d, name, v) == (name :> v) @@ d

RECURSIVE SetAttrs(_, _, _)
SetAttrs(d, names, v) ==
    IF names = <<>> THEN d
    ELSE SetAttrs(SetAttr(d, Head(names), v), Tail(names), v)

Has(z, name) == name \in DOMAIN z.attr

NoAttr == [n \in {} |-> <<0, 1>>]

Whole(n) == <<n, 1>>

(***************************************************************************)
(* Surfaces.  A surface is what ThermalZone reads of it: its type, its     *)
(* total / opaque / glazed area and the optional construction and window.  *)
(***************************************************************************)
NoConstruction == [u_value |-> 0, k_int |-> 0, k_est |-> 0]
NoWindow == [u_value |-> 0]
Brick == [u_value |-> 2, k_int |-> 3, k_est |-> 1]
Slab == [u_value |-> 1, k_int |-> 2, k_est |-> 3]
Glass == [u_value |-> 3]

Surf(t, area, glazed, hc, c, hw, w) ==
    [surface_type |-> t, area |-> area, opaque_area |-> area - glazed,
     glazed_area |-> glazed, has_construction |-> hc, construction |-> c,
     has_window |-> hw, window |-> w]

WallGlazed == Surf("ExtWall", 10, 4, TRUE, Brick, TRUE, Glass)
WallOpaque == Surf("ExtWall", 10, 0, TRUE, Brick, FALSE, NoWindow)
WallUnglazedWindow == Surf("ExtWall", 10, 0, TRUE, Brick, TRUE, Glass)
WallNoWindow == Surf("ExtWall", 10, 4, TRUE, Brick, FALSE, NoWindow)
WallNoConstruction == Surf("ExtWall", 10, 0, FALSE, NoConstruction, FALSE, NoWindow)
RoofGlazed == Surf("Roof", 8, 2, TRUE, Slab, TRUE, Glass)
Floor == Surf("GroundFloor", 8, 0, TRUE, Slab, FALSE, NoWindow)
FloorZeroArea == Surf("GroundFloor", 1, 0, TRUE, Slab, FALSE, NoWindow)
IntWall == Surf("IntWall", 6, 0, TRUE, Brick, FALSE, NoWindow)
IntFloor == Surf("IntFloor", 6, 0, TRUE, Slab, FALSE, NoWindow)
IntWallNoConstruction == Surf("IntWall", 6, 0, FALSE, NoConstruction, FALSE, NoWindow)

Surfaces ==
    {WallGlazed, WallOpaque, WallUnglazedWindow, WallNoWindow, WallNoConstruction, RoofGlazed,
     Floor, FloorZeroArea, IntWall, IntFloor, IntWallNoConstruction}

\* the surfaces that passed construction-time validation with every link
\* their geometry requires
ValidSurfaces ==
    {s \in Surfaces : s.has_construction /\ (s.glazed_area > 0 => s.has_window)}

FloorSurfaces == {Floor, FloorZeroArea, WallOpaque}

SeqsUpTo(S, n) == UNION {[1..k -> S] : k \in 0..n}

RECURSIVE SumSeq(_)
SumSeq(s) == IF s = <<>> THEN 0 ELSE Head(s) + SumSeq(Tail(s))

(***************************************************************************)
(* ThermalZone: the floored setters and the constructor.                   *)
(***************************************************************************)
NoneArg == [is_none |-> TRUE, val |-> 0]
Num(v) == [is_none |-> FALSE, val |-> v]
AreaArgs == {NoneArg} \cup {Num(v) : v \in (0 - MaxInput)..MaxInput}

\* mutants of Floored: floor every non-positive value; floor only an exact zero
FlooredNoAbs(value) == IF value < ZoneFloor THEN ZoneFloor ELSE value
FlooredZeroOnly(value) == IF value = 0 THEN ZoneFloor ELSE Abs(value)

\* the value the three floored setters store for `value`
Floored(value) == IF Abs(value) < ZoneFloor THEN ZoneFloor ELSE Abs(value)

NegativeLog(what, value) == IF value < 0 THEN {<<"error", what>>} ELSE {}

set_air_thermal_capacity(z, value) ==
    [z EXCEPT !.air_thermal_capacity = Floored(value)]

set_net_floor_area(z, value) ==
    [z EXCEPT !.net_floor_area = Floored(value)]

set_volume(z, value) ==
    LET z1 == [z EXCEPT !.volume = Floored(value)]
    IN set_air_thermal_capacity(z1, z1.volume * AirRhoCp)

FloorsArea(surface_list) ==
    SumSeq([i \in 1..Len(surface_list) |->
              IF surface_list[i].surface_type = "GroundFloor"
              THEN surface_list[i].area ELSE 0])

HasFloor(surface_list) ==
    \E i \in 1..Len(surface_list) : surface_list[i].surface_type = "GroundFloor"

BlankZone(surface_list) ==
    [surface_list |-> surface_list, net_floor_area |-> 0, volume |-> 0,
     air_thermal_capacity |-> 0, internal_loads_list |-> <<>>,
     natural_ventilation_list |-> <<>>, attr |-> NoAttr]

VolumeInput(volume) == IF volume.is_none THEN 0 ELSE volume.val

AreaInput(surface_list, net_floor_area) ==
    IF net_floor_area.is_none
    THEN (IF HasFloor(surface_list) THEN FloorsArea(surface_list) ELSE 0)
    ELSE net_floor_area.val

ThermalZone_init(surface_list, net_floor_area, volume) ==
    set_net_floor_area(
        set_volume(BlankZone(surface_list), VolumeInput(volume)),
        AreaInput(surface_list, net_floor_area))

InitLog(surface_list, net_floor_area, volume) ==
    (IF volume.is_none THEN {<<"warning", "volume">>} ELSE {})
    \cup NegativeLog("volume", VolumeInput(volume))
    \cup (IF net_floor_area.is_none /\ ~HasFloor(surface_list)
          THEN {<<"warning", "net_floor_area">>} ELSE {})
    \cup NegativeLog("net_floor_area", AreaInput(surface_list, net_floor_area))

Call(op, obj, args, result, ret, log) ==
    [op |-> op, obj |-> obj, args |-> args, result |-> result, ret |-> ret, log |-> log]

Idle == [n \in {} |-> 0]
NoSchedule == [exists |-> FALSE]

(***************************************************************************)
(* SpecArea: one zone, constructed with any arguments, then any sequence   *)
(* of assignments to _net_floor_area and _volume.                          *)
(***************************************************************************)
InitArea ==
    \E sl \in SeqsUpTo(FloorSurfaces, MaxSurfaces), a \in AreaArgs, v \in AreaArgs :
        /\ zones = ("z1" :> ThermalZone_init(sl, a, v))
        /\ built = ("z1" :> [n \in {} |-> <<>>])
        /\ loads = Idle
        /\ sched = NoSchedule
        /\ surfaces = Idle
        /\ materials = Idle
        /\ last_call = Call("ThermalZone", "z1", <<AreaInput(sl, a), VolumeInput(v)>>,
                            "ok", <<>>, InitLog(sl, a, v))

SetNetFloorArea(z) ==
    \E v \in (0 - MaxInput)..MaxInput :
        /\ zones' = [zones EXCEPT ![z] = set_net_floor_area(@, v)]
        /\ last_call' = Call("_net_floor_area", z, <<v>>, "ok", <<>>,
                             NegativeLog("net_floor_area", v))
        /\ UNCHANGED <<built, loads, sched, surfaces, materials>>

SetVolume(z) ==
    \E v \in (0 - MaxInput)..MaxInput :
        /\ zones' = [zones EXCEPT ![z] = set_volume(@, v)]
        /\ last_call' = Call("_volume", z, <<v>>, "ok", <<>>, NegativeLog("volume", v))
        /\ UNCHANGED <<built, loads, sched, surfaces, materials>>

NextArea ==
    \/ \E z \in DOMAIN zones : SetNetFloorArea(z)
    \/ \E z \in DOMAIN zones : SetVolume(z)

SpecArea == InitArea /\ [][NextArea]_vars

(* C1: in every state reachable by construction with any net_floor_area /
   volume argument (None, zero, negative) followed by any sequence of
   assignments, the stored net_floor_area and volume are >= 1e-5. *)
C1_AreaVolumePositive ==
    \A z \in DOMAIN zones :
        zones[z].net_floor_area >= ZoneFloor /\ zones[z].volume >= ZoneFloor

\* a negative assignment has acted and the stored value is its absolute value
C1_Witness ==
    /\ last_call.op = "_net_floor_area"
    /\ last_call.args[1] < 0
    /\ zones["z1"].net_floor_area = 0 - last_call.args[1]

(* C2 (as claimed): whenever net_floor_area or volume is input or computed
   as zero or as a negative number, the stored value is exactly 1e-5. *)
C2_Original ==
    /\ (last_call.op = "_net_floor_area" /\ last_call.args[1] <= 0)
          => zones[last_call.obj].net_floor_area = ZoneFloor
    /\ (last_call.op = "_volume" /\ last_call.args[1] <= 0)
          => zones[last_call.obj].volume = ZoneFloor
    /\ (last_call.op = "ThermalZone" /\ last_call.args[1] <= 0)
          => zones[last_call.obj].net_floor_area = ZoneFloor
    /\ (last_call.op = "ThermalZone" /\ last_call.args[2] <= 0)
          => zones[last_call.obj].volume = ZoneFloor

\* what the amended C2 asks of the value stored for an input
C2_Stored(value, stored) ==
    /\ Abs(value) < ZoneFloor => stored = ZoneFloor
    /\ Abs(value) >= ZoneFloor => stored = Abs(value)

(* C2 (amended): a value input or computed as zero, or of magnitude below
   1e-5, is stored as exactly 1e-5; a negative value of magnitude >= 1e-5
   is stored as its absolute value. *)
C2_Amended ==
    /\ last_call.op = "_net_floor_area"
          => C2_Stored(last_call.args[1], zones[last_call.obj].net_floor_area)
    /\ last_call.op = "_volume"
          => C2_Stored(last_call.args[1], zones[last_call.obj].volume)
    /\ last_call.op = "ThermalZone"
          => /\ C2_Stored(last_call.args[1], zones[last_call.obj].net_floor_area)
             /\ C2_Stored(last_call.args[2], zones[last_call.obj].volume)

\* a zero volume was assigned and floored; the floor area was computed from
\* a zero-area ground floor at construction
C2_Witness ==
    /\ last_call.op = "_volume"
    /\ last_call.args[1] = 0
    /\ zones["z1"].volume = ZoneFloor
    /\ zones["z1"].surface_list # <<>>
    /\ zones["z1"].surface_list[1] = FloorZeroArea

(***************************************************************************)
(* InternalLoad (People, ElectricLoad, Lights) and NaturalVentilation.     *)
(* nominal_value_absolute is an attribute that exists only once a get_*    *)
(* call has resolved it: `cached` is its existence.                        *)
(***************************************************************************)
NumberOfTimeStepsYear == 2      \* CONFIG.number_of_time_steps_year
MaxArea == 3                    \* largest area / volume passed to a get_* call

AirDensity10 == 12              \* air_properties["density"], in tenths
SecondsPerHour == 3600

Steps == 1..NumberOfTimeStepsYear
Zeros == [t \in Steps |-> 0]
Occupancy == [t \in Steps |-> (3 * t) % 11]
Humidity == [t \in Steps |-> t]

InternalLoadClasses == {"People", "ElectricLoad", "Lights"}

LoadObject(cls, unit, nominal_value, method, fl, fr, fc, ftz, met, people) ==
    [cls |-> cls, unit |-> unit, nominal_value |-> nominal_value,
     calculation_method |-> method, schedule |-> Occupancy,
     fraction_latent |-> fl, fraction_radiant |-> fr, fraction_convective |-> fc,
     fraction_to_zone |-> ftz, metabolic_rate |-> met, number_of_people |-> people,
     cached |-> FALSE, nominal_value_absolute |-> 0]

PeopleMethod(unit) == IF unit \in {"W/m2", "px/m2"} THEN "floor_area" ELSE "absolute"

ElectricMethod(unit) ==
    IF unit = "W/m2" THEN "floor_area" ELSE IF unit = "W/px" THEN "people" ELSE "absolute"

People(unit, nominal_value, fl, fr, fc, met) ==
    LoadObject("People", unit, nominal_value, PeopleMethod(unit), fl, fr, fc, 100, met, NoneArg)

ElectricLoad(cls, unit, nominal_value, ftz, fr, fc, people) ==
    LoadObject(cls, unit, nominal_value, ElectricMethod(unit), 0, fr, fc, ftz, 1, people)

NaturalVentilation(unit, nominal_value) ==
    LoadObject("NaturalVentilation", unit, nominal_value, "absolute", 0, 0, 0, 0, 1, NoneArg)

LoadCatalog ==
    [occupancy |-> People("px/m2", 2, 45, 30, 70, 3),
     lights |-> ElectricLoad("Lights", "W/m2", 2, 100, 70, 30, NoneArg),
     pc |-> ElectricLoad("ElectricLoad", "W/px", 3, 50, 20, 80, Num(2)),
     infiltration |-> NaturalVentilation("Vol/h", 1)]

OptAreas == {NoneArg} \cup {Num(a) : a \in 2..MaxArea}

\* the outcome of a method on a load: the exception or "ok", the load as the
\* call leaves it, and the value returned
Out(result, load, ret) == [result |-> result, load |-> load, ret |-> ret]

Scale(series, k) == [t \in DOMAIN series |-> k * series[t]]
Add(s1, s2) == [t \in DOMAIN s1 |-> s1[t] + s2[t]]
Mul(s1, s2) == [t \in DOMAIN s1 |-> s1[t] * s2[t]]

People_get_absolute_value_nominal(l, area) ==
    IF l.calculation_method = "floor_area" /\ area.is_none
    THEN Out("AreaNotProvided", l, <<>>)
    ELSE LET a == IF l.calculation_method = "floor_area" THEN area.val ELSE 1
             px_w_converter == IF l.unit \in {"px", "px/m2"} THEN l.metabolic_rate ELSE 1
         IN Out("ok", [l EXCEPT !.cached = TRUE,
                                !.nominal_value_absolute = a * px_w_converter * l.nominal_value],
                <<>>)

ElectricLoad_get_absolute_value_nominal(l, area) ==
    IF l.calculation_method = "floor_area" /\ area.is_none
    THEN Out("AreaNotProvided", l, <<>>)
    ELSE IF l.calculation_method = "people" /\ l.number_of_people.is_none
    THEN Out("PeopleNotProvided", l, <<>>)
    ELSE LET a == IF l.calculation_method = "floor_area" THEN area.val ELSE 1
             number_of_people ==
                 IF l.calculation_method = "people" THEN l.number_of_people.val ELSE 1
         IN Out("ok", [l EXCEPT !.cached = TRUE,
                                !.nominal_value_absolute = number_of_people * a * l.nominal_value],
                <<>>)

\* the dict of all five unit formulas is built before it is indexed: a None
\* area or volume fails whatever the unit.  The value is in units of
\* 1/(10 * 3600) kg/s.
NaturalVentilation_get_absolute_value_nominal(l, area, volume) ==
    IF area.is_none \/ volume.is_none
    THEN Out("AttributeError", l, <<>>)
    ELSE LET v == CASE l.unit = "Vol/h" -> l.nominal_value * volume.val * AirDensity10
                    [] l.unit = "kg/s" -> l.nominal_value * 10 * SecondsPerHour
                    [] l.unit = "kg/(m2 s)" -> l.nominal_value * area.val * 10 * SecondsPerHour
                    [] l.unit = "m3/s" -> l.nominal_value * AirDensity10 * SecondsPerHour
                    [] l.unit = "m3/(m2 s)" ->
                           l.nominal_value * area.val * AirDensity10 * SecondsPerHour
         IN Out("ok", [l EXCEPT !.cached = TRUE, !.nominal_value_absolute = v], <<>>)

get_absolute_value_nominal(l, area) ==
    IF l.cls = "People" THEN People_get_absolute_value_nominal(l, area)
    ELSE ElectricLoad_get_absolute_value_nominal(l, area)

\* mutant of Resolve: the value is recomputed by every call
ResolveAlways(l, area) == get_absolute_value_nominal(l, area)

\* try: self.nominal_value_absolute / except AttributeError: resolve it
Resolve(l, area) ==
    IF l.cached THEN Out("ok", l, <<>>) ELSE get_absolute_value_nominal(l, area)

ResolveVentilation(l, area, volume) ==
    IF l.cached THEN Out("ok", l, <<>>)
    ELSE NaturalVentilation_get_absolute_value_nominal(l, area, volume)

\* mutant of ConvectiveFraction: the latent part is not taken off
ConvectiveFractionWithLatent(l) == 100 * l.fraction_convective

\* fractions are hundredths: the sensible loads are in units of 1e-4 * 1e-1 W
ConvectiveFraction(l) ==
    IF l.cls = "People" THEN (100 - l.fraction_latent) * l.fraction_convective
    ELSE l.fraction_to_zone * l.fraction_convective

RadiantFraction(l) ==
    IF l.cls = "People" THEN (100 - l.fraction_latent) * l.fraction_radiant
    ELSE l.fraction_to_zone * l.fraction_radiant

\* the return statement of a get_* method, r the outcome of the try / except
\* before it: fraction * nominal_value_absolute * schedule
Series(r, fraction) ==
    IF r.result # "ok" THEN r
    ELSE Out("ok", r.load, Scale(r.load.schedule, fraction * r.load.nominal_value_absolute))

get_convective_load(l, area) == Series(Resolve(l, area), ConvectiveFraction(l))

get_radiant_load(l, area) == Series(Resolve(l, area), RadiantFraction(l))

\* the latent load is in units of 1e-4 * 1e-1 / latent_heat kg/s
get_latent_load(l, area) ==
    IF l.cls # "People" THEN Out("ok", l, Scale(l.schedule, 0))
    ELSE Series(Resolve(l, area), 100 * l.fraction_latent)

\* get_loads: the three calls in the order of the code, each on the load
\* as the call before left it
get_loads_return(conv, rad, lat) ==
    IF conv.result # "ok" THEN conv
    ELSE IF rad.result # "ok" THEN rad
    ELSE IF lat.result # "ok" THEN lat
    ELSE Out("ok", lat.load, <<conv.ret, rad.ret, lat.ret>>)

get_loads_latent(conv, rad, area) ==
    get_loads_return(conv, rad, get_latent_load(rad.load, area))

get_loads_radiant(conv, area) ==
    get_loads_latent(conv, get_radiant_load(conv.load, area), area)

get_loads(l, area) == get_loads_radiant(get_convective_load(l, area), area)

get_air_flow_rate(l, area, volume) == Series(ResolveVentilation(l, area, volume), 1)

\* ... * weather.hourly_data['out_air_specific_humidity']
TimesHumidity(r) == IF r.result # "ok" THEN r ELSE Out("ok", r.load, Mul(r.ret, Humidity))

get_vapour_flow_rate(l, area, volume) ==
    TimesHumidity(get_air_flow_rate(l, area, volume))

(***************************************************************************)
(* ThermalZone._ISO13790_params.  The zone's attributes are updated in     *)
(* place, so a build that raises leaves the partial sums behind.           *)
(***************************************************************************)
ZOut(result, zone) == [result |-> result, zone |-> zone]

Plus(z, name, n) == [z EXCEPT !.attr = SetAttr(@, name, Whole(@[name][1] + n))]
Put(z, name, v) == [z EXCEPT !.attr = SetAttr(@, name, v)]
Val(z, name) == z.attr[name][1]

\* surface.surface_type in ['ExtWall', 'Roof']
IsWallOrRoof(surface) == surface.surface_type \in {"ExtWall", "Roof"}

\* surface.surface_type in ["ExtWall", "GroundFloor", "Roof"]
IsExternal(surface) == surface.surface_type \in ExtTypes

\* mutant of NeedsWindow: the window is read whatever the glazed area
NeedsWindowAlways(surface) == TRUE

\* if surface._glazed_area > 0.
NeedsWindow(surface) == surface.glazed_area > 0

\* the body of the loop for one surface, inside try / except AttributeError
ISO13790_surface(z, surface) ==
    IF ~surface.has_construction THEN ZOut("AttributeError", z)
    ELSE LET k == IF surface.surface_type = "IntFloor"
                  THEN surface.construction.k_est ELSE surface.construction.k_int
             z1 == Plus(Plus(Plus(z, "Cm", surface.opaque_area * k),
                             "DenAm", surface.opaque_area * k * k),
                        "Atot", surface.area)
         IN IF ~IsExternal(surface) THEN ZOut("ok", z1)
            ELSE LET z2 == Plus(z1, "Htr_op",
                                surface.opaque_area * surface.construction.u_value)
                 IN IF ~NeedsWindow(surface) THEN ZOut("ok", z2)
                    ELSE IF ~surface.has_window THEN ZOut("AttributeError", z2)
                    ELSE ZOut("ok", Plus(z2, "Htr_w",
                                         surface.glazed_area * surface.window.u_value))

RECURSIVE ISO13790_loop(_, _)
ISO13790_loop(z, i) ==
    IF i > Len(z.surface_list) THEN ZOut("ok", z)
    ELSE LET r == ISO13790_surface(z, z.surface_list[i])
         IN IF r.result # "ok" THEN r ELSE ISO13790_loop(r.zone, i + 1)

\* Am = Cm ** 2 / DenAm ... UA_tot = Htr_op + Htr_w, on Python floats
ISO13790_final(z) ==
    LET z1 == Put(Put(z, "htr_ms", <<htr_ms10, 10>>), "h_is", <<h_is100, 100>>)
        Cm == Val(z, "Cm")
        DenAm == Val(z, "DenAm")
        Htr_op == Val(z, "Htr_op")
    IN IF DenAm = 0 THEN ZOut("ZeroDivisionError", z1)
       ELSE LET z2 == Put(z1, "Am", <<Cm * Cm, DenAm>>)
                z3 == Put(z2, "Htr_ms", <<htr_ms10 * Cm * Cm, 10 * DenAm>>)
                den == htr_ms10 * Cm * Cm - 10 * DenAm * Htr_op
            IN IF Htr_op = 0 \/ Cm = 0 \/ den = 0 THEN ZOut("ZeroDivisionError", z3)
               ELSE ZOut("ok",
                     Put(Put(Put(z3, "Htr_em", <<Htr_op * htr_ms10 * Cm * Cm, den>>),
                             "Htr_is", <<h_is100 * Val(z, "Atot"), 100>>),
                         "UA_tot", Whole(Htr_op + Val(z, "Htr_w"))))

ISO13790_params(z) ==
    LET z0 == [z EXCEPT !.attr =
                 SetAttrs(@, <<"Htr_is", "Htr_w", "Htr_ms", "Htr_em", "Cm", "DenAm",
                               "Atot", "Htr_op">>, Whole(0))]
        r == ISO13790_loop(z0, 1)
    IN IF r.result # "ok" THEN r ELSE ISO13790_final(r.zone)

(***************************************************************************)
(* ThermalZone._VDI6007_params.  The per-surface arrays are locals; the    *)
(* zone holds Araum and Aaw from the first line of the loop on.            *)
(***************************************************************************)
VDI_locals == [HAW |-> 0, HAF |-> 0, AreaAW |-> 0, AreaAF |-> 0, AreaIW |-> 0,
               nAW |-> 0, nIW |-> 0]

VOut(result, zone, loc) == [result |-> result, zone |-> zone, loc |-> loc]

\* mutant of GlazedConductance: the glazed area is left out of the product
GlazedConductanceNoArea(surface) ==
    IF surface.has_window THEN surface.window.u_value ELSE 0

\* the glazed conductance appended to HAF_v: window._u_value * _glazed_area
\* in the try branch, 0. in the except AttributeError branch
GlazedConductance(surface) ==
    IF surface.has_window THEN surface.window.u_value * surface.glazed_area ELSE 0

VDI6007_surface(z, loc, surface) ==
    LET z1 == Plus(z, "Araum", surface.area)
    IN IF IsExternal(surface)
       THEN LET z2 == Plus(z1, "Aaw", surface.area)
            IN IF ~surface.has_construction THEN VOut("AttributeError", z2, loc)
               ELSE IF surface.has_window /\ surface.glazed_area = 0
               THEN VOut("ZeroDivisionError", z2, loc)
               ELSE VOut("ok", z2,
                         [loc EXCEPT
                            !.HAW = @ + surface.construction.u_value * surface.opaque_area,
                            !.HAF = @ + GlazedConductance(surface),
                            !.AreaAW = @ + surface.opaque_area,
                            !.AreaAF = @ + surface.glazed_area,
                            !.nAW = @ + 1])
       ELSE IF surface.surface_type \in IntTypes
       THEN IF ~surface.has_construction THEN VOut("AttributeError", z1, loc)
            ELSE VOut("ok", z1, [loc EXCEPT !.AreaIW = @ + surface.area, !.nIW = @ + 1])
       ELSE VOut("TypeError", z1, loc)

RECURSIVE VDI6007_loop(_, _, _)
VDI6007_loop(z, loc, i) ==
    IF i > Len(z.surface_list) THEN VOut("ok", z, loc)
    ELSE LET r == VDI6007_surface(z, loc, z.surface_list[i])
         IN IF r.result # "ok" THEN r ELSE VDI6007_loop(r.zone, r.loc, i + 1)

\* impedence_parallel on an empty array of impedances either returns or
\* raises; on a non-empty one it returns
ImpedenceParallelOnEmpty == {"returns", "raises"}

\* the lines after the loop: sum() of an empty array is the int 0, so
\* 1 / sum(...) raises ZeroDivisionError when there is no outer or no inner
\* surface.  R1AW ... RalphaStarIW are set; their values are not modelled.
VDI6007_final(z, loc, on_empty) ==
    IF loc.nAW = 0 /\ on_empty = "raises" THEN ZOut("Error", z)
    ELSE LET z1 == Put(Put(z, "R1AW", <<>>), "C1AW", <<>>)
         IN IF loc.nIW = 0 /\ on_empty = "raises" THEN ZOut("Error", z1)
            ELSE LET z2 == Put(Put(z1, "R1IW", <<>>), "C1IW", <<>>)
                 IN IF loc.nAW = 0 THEN ZOut("ZeroDivisionError", z2)
                    ELSE LET z3 == Put(z2, "RgesAW", <<1, loc.HAW + loc.HAF>>)
                         IN IF loc.nIW = 0 THEN ZOut("ZeroDivisionError", z3)
                            ELSE ZOut("ok",
                                  [z3 EXCEPT !.attr =
                                     ("Htr_w" :> Whole(loc.HAF))
                                     @@ ("Htr_op" :> Whole(loc.HAW))
                                     @@ ("UA_tot" :> Whole(loc.HAW + loc.HAF))
                                     @@ SetAttrs(@, <<"RrestAW", "RalphaStarIL",
                                                     "RalphaStarAW", "RalphaStarIW">>,
                                                 <<>>)])

VDI6007_params(z, on_empty) ==
    LET z0 == Put(Put(z, "Araum", Whole(0)), "Aaw", Whole(0))
        r == VDI6007_loop(z0, VDI_locals, 1)
    IN IF r.result # "ok" THEN ZOut(r.result, r.zone)
       ELSE VDI6007_final(r.zone, r.loc, on_empty)

(***************************************************************************)
(* ThermalZone.add_internal_load and                                       *)
(* ThermalZone.extract_convective_radiative_latent_load.                   *)
(***************************************************************************)
EOut(result, zone, L, ret) == [result |-> result, zone |-> zone, loads |-> L, ret |-> ret]

IsInternalLoad(L, id) == id \in DOMAIN L /\ L[id].cls \in InternalLoadClasses

\* the arguments are checked and appended one by one
RECURSIVE add_internal_load(_, _, _)
add_internal_load(z, L, internal_load) ==
    IF internal_load = <<>> THEN ZOut("ok", z)
    ELSE IF ~IsInternalLoad(L, Head(internal_load)) THEN ZOut("TypeError", z)
    ELSE add_internal_load(
             [z EXCEPT !.internal_loads_list = Append(@, Head(internal_load))],
             L, Tail(internal_load))

RECURSIVE extract_loop(_, _, _, _)
RECURSIVE extract_accumulate(_, _, _, _, _)

\* convective += load_conv ...: o is what load.get_loads(area=...) left
extract_accumulate(z, L, i, acc, o) ==
    IF o.result # "ok" THEN EOut(o.result, z, L, <<>>)
    ELSE extract_loop(z, L, i + 1,
                      <<Add(acc[1], o.ret[1]), Add(acc[2], o.ret[2]), Add(acc[3], o.ret[3])>>)

extract_load(z, L, i, acc, id, o) ==
    extract_accumulate(z, [L EXCEPT ![id] = o.load], i, acc, o)

extract_loop(z, L, i, acc) ==
    IF i > Len(z.internal_loads_list) THEN EOut("ok", z, L, acc)
    ELSE extract_load(z, L, i, acc, z.internal_loads_list[i],
                      get_loads(L[z.internal_loads_list[i]], Num(z.net_floor_area)))

\* self.convective_load = convective ...
extract_store(z, r) ==
    IF r.result # "ok" THEN r
    ELSE EOut("ok",
              Put(Put(Put(z, "convective_load", r.ret[1]), "radiative_load", r.ret[2]),
                  "latent_load", r.ret[3]),
              r.loads, r.ret)

extract_convective_radiative_latent_load(z, L) ==
    extract_store(z, extract_loop(z, L, 1, <<Zeros, Zeros, Zeros>>))

(***************************************************************************)
(* ThermalZone.calculate_zone_loads_ISO13790 and _VDI6007.  The solar and  *)
(* long-wave terms are not modelled: an attribute they feed is set to <<>>.*)
(***************************************************************************)
WeatherArgs == {"WeatherFile", "dict"}

\* the loop over the surfaces: h_r is a local bound only under
\* hasattr(surface, 'window') and read for every wall and roof
RECURSIVE ISO13790_solar(_, _, _)
ISO13790_solar(surface_list, i, h_r_bound) ==
    IF i > Len(surface_list) THEN "ok"
    ELSE LET surface == surface_list[i]
             bound == h_r_bound \/ surface.has_window
         IN IF ~IsWallOrRoof(surface) THEN ISO13790_solar(surface_list, i + 1, h_r_bound)
            ELSE IF ~surface.has_construction THEN "AttributeError"
            ELSE IF ~bound THEN "UnboundLocalError"
            ELSE ISO13790_solar(surface_list, i + 1, bound)

\* self.phi_ia, self.phi_st, self.phi_m: z1 is the zone with phi_ia set
ISO13790_nodes(z1, L) ==
    IF ~(Has(z1, "Am") /\ Has(z1, "Atot") /\ Has(z1, "Htr_w"))
    THEN EOut("AttributeError", z1, L, <<>>)
    ELSE IF Val(z1, "Atot") = 0 THEN EOut("ZeroDivisionError", z1, L, <<>>)
    ELSE EOut("ok", Put(Put(z1, "phi_st", <<>>), "phi_m", <<>>), L, <<>>)

\* e is what extract_convective_radiative_latent_load left
ISO13790_loads(e, sol) ==
    IF e.result # "ok" THEN e
    ELSE IF sol # "ok" THEN EOut(sol, e.zone, e.loads, <<>>)
    ELSE ISO13790_nodes(Put(e.zone, "phi_ia", e.ret[1]), e.loads)

calculate_zone_loads_ISO13790(z, L, weather) ==
    IF weather # "WeatherFile" THEN EOut("TypeError", z, L, <<>>)
    ELSE ISO13790_loads(extract_convective_radiative_latent_load(z, L),
                        ISO13790_solar(z.surface_list, 1, FALSE))

\* the loop over the surfaces: theta_eq reads self.UA_tot, the window share
\* of a wall or roof reads self.Araum and self.Aaw
RECURSIVE VDI6007_theta_eq(_, _)
VDI6007_theta_eq(z, i) ==
    IF i > Len(z.surface_list) THEN "ok"
    ELSE LET surface == z.surface_list[i]
         IN IF IsWallOrRoof(surface)
            THEN IF ~surface.has_construction \/ ~Has(z, "UA_tot") THEN "AttributeError"
                 ELSE IF surface.has_window /\ ~(Has(z, "Araum") /\ Has(z, "Aaw"))
                 THEN "AttributeError"
                 ELSE IF surface.has_window /\ Val(z, "Araum") = surface.glazed_area
                 THEN "ZeroDivisionError"
                 ELSE VDI6007_theta_eq(z, i + 1)
            ELSE IF surface.surface_type = "GroundFloor"
            THEN IF ~surface.has_construction \/ ~Has(z, "UA_tot") THEN "AttributeError"
                 ELSE VDI6007_theta_eq(z, i + 1)
            ELSE VDI6007_theta_eq(z, i + 1)

\* self.Q_il_str_iw, self.Q_il_str_aw: z1 is the zone with Q_il_kon_I set
VDI6007_split(z1, L) ==
    IF ~(Has(z1, "Araum") /\ Has(z1, "Aaw")) THEN EOut("AttributeError", z1, L, <<>>)
    ELSE EOut("ok", Put(Put(z1, "Q_il_str_iw", <<>>), "Q_il_str_aw", <<>>), L, <<>>)

\* e is what extract_convective_radiative_latent_load left
VDI6007_loads(e) ==
    IF e.result # "ok" THEN e
    ELSE VDI6007_split(Put(e.zone, "Q_il_kon_I", e.ret[1]), e.loads)

calculate_zone_loads_VDI6007(z, L, weather) ==
    IF weather # "WeatherFile" THEN EOut("TypeError", z, L, <<>>)
    ELSE IF VDI6007_theta_eq(z, 1) # "ok" THEN EOut(VDI6007_theta_eq(z, 1), z, L, <<>>)
    ELSE VDI6007_loads(extract_convective_radiative_latent_load(
                           Put(z, "theta_eq_tot", <<>>), L))

(***************************************************************************)
(* Spec: one zone over any list of surfaces; the two parameter builds and  *)
(* the two load calculations in any order.                                 *)
(***************************************************************************)
NoBuild == [n \in {} |-> <<>>]

Totals(z) == <<z.attr["Htr_op"], z.attr["Htr_w"], z.attr["UA_tot"]>>

Init ==
    \E sl \in SeqsUpTo(Surfaces, MaxSurfaces) :
        /\ zones = ("z1" :> ThermalZone_init(sl, NoneArg, NoneArg))
        /\ built = ("z1" :> NoBuild)
        /\ loads = Idle
        /\ sched = NoSchedule
        /\ surfaces = Idle
        /\ materials = Idle
        /\ last_call = Call("ThermalZone", "z1", <<AreaInput(sl, NoneArg), 0>>, "ok", <<>>,
                            InitLog(sl, NoneArg, NoneArg))

Completed(z, name, r) ==
    built' = IF r.result = "ok"
             THEN [built EXCEPT ![z] = (name :> Totals(r.zone)) @@ @]
             ELSE built

\* the state a build leaves: the zone as the build left it, failed or not
BuildDone(z, name, r) ==
    /\ zones' = [zones EXCEPT ![z] = r.zone]
    /\ Completed(z, name, r)
    /\ last_call' = Call(name, z, <<>>, r.result, <<>>, {})
    /\ UNCHANGED <<loads, sched, surfaces, materials>>

\* the state a load calculation leaves
SolveDone(z, name, weather, r) ==
    /\ zones' = [zones EXCEPT ![z] = r.zone]
    /\ loads' = r.loads
    /\ last_call' = Call(name, z, <<weather>>, r.result, <<>>, {})
    /\ UNCHANGED <<built, sched, surfaces, materials>>

ISO13790Params(z) == BuildDone(z, "_ISO13790_params", ISO13790_params(zones[z]))

VDI6007Params(z) ==
    \E on_empty \in ImpedenceParallelOnEmpty :
        BuildDone(z, "_VDI6007_params", VDI6007_params(zones[z], on_empty))

CalculateZoneLoadsISO13790(z) ==
    \E weather \in WeatherArgs :
        SolveDone(z, "calculate_zone_loads_ISO13790", weather,
                  calculate_zone_loads_ISO13790(zones[z], loads, weather))

CalculateZoneLoadsVDI6007(z) ==
    \E weather \in WeatherArgs :
        SolveDone(z, "calculate_zone_loads_VDI6007", weather,
                  calculate_zone_loads_VDI6007(zones[z], loads, weather))

Next ==
    \/ \E z \in DOMAIN zones : ISO13790Params(z)
    \/ \E z \in DOMAIN zones : VDI6007Params(z)
    \/ \E z \in DOMAIN zones : CalculateZoneLoadsISO13790(z)
    \/ \E z \in DOMAIN zones : CalculateZoneLoadsVDI6007(z)

Spec == Init /\ [][Next]_vars

(***************************************************************************)
(* Claims on the parameter builds and the load calculations, under Spec.   *)
(***************************************************************************)
BuildOf(solve) ==
    IF solve = "calculate_zone_loads_ISO13790" THEN "_ISO13790_params" ELSE "_VDI6007_params"

Solves == {"calculate_zone_loads_ISO13790", "calculate_zone_loads_VDI6007"}

\* C3: a load calculation called on a zone whose matching parameter build
\* has not completed never returns normally (the claim adds that the failure
\* is an AttributeError), whichever other builds or calculations ran before.
C3_SolveNeedsCompletedBuild ==
    (/\ last_call.op \in Solves
     /\ BuildOf(last_call.op) \notin DOMAIN built[last_call.obj])
        => last_call.result # "ok"

LacksConstruction(z) ==
    \E i \in 1..Len(zones[z].surface_list) : ~zones[z].surface_list[i].has_construction

LacksWindow(z) ==
    \E i \in 1..Len(zones[z].surface_list) :
        LET surface == zones[z].surface_list[i]
        IN /\ surface.surface_type \in {"ExtWall", "GroundFloor", "Roof"}
           /\ surface.glazed_area > 0
           /\ ~surface.has_window

Validated(z) ==
    \A i \in 1..Len(zones[z].surface_list) : zones[z].surface_list[i] \in ValidSurfaces

\* C8: on a zone with at least one surface, whose surfaces all passed the
\* construction-time validation, neither parameter build raises a
\* ZeroDivisionError - zero-area surfaces, unglazed walls, zones without
\* internal-mass surface and zones without external surface included.
C8_NoZeroDivision ==
    (/\ last_call.op \in {"_ISO13790_params", "_VDI6007_params"}
     /\ Len(zones[last_call.obj].surface_list) > 0
     /\ Validated(last_call.obj))
        => last_call.result # "ZeroDivisionError"

(***************************************************************************)
(* SpecLoad: the get_* methods called on the load objects directly, with   *)
(* any area and volume.                                                    *)
(***************************************************************************)
InitLoad ==
    /\ zones = Idle
    /\ built = Idle
    /\ loads = LoadCatalog
    /\ sched = NoSchedule
    /\ surfaces = Idle
    /\ materials = Idle
    /\ last_call = Call("InternalLoad", "", <<>>, "ok", <<>>, {})

InternalLoads(L) == {l \in DOMAIN L : L[l].cls \in InternalLoadClasses}
Ventilations(L) == {l \in DOMAIN L : L[l].cls = "NaturalVentilation"}

\* the state a get_* call leaves: the load as the call left it
GetDone(l, name, args, r) ==
    /\ loads' = [loads EXCEPT ![l] = r.load]
    /\ last_call' = Call(name, l, args, r.result, r.ret, {})
    /\ UNCHANGED <<zones, built, sched, surfaces, materials>>

GetConvectiveLoad(l) ==
    \E area \in OptAreas :
        GetDone(l, "get_convective_load", <<area>>, get_convective_load(loads[l], area))

GetRadiantLoad(l) ==
    \E area \in OptAreas :
        GetDone(l, "get_radiant_load", <<area>>, get_radiant_load(loads[l], area))

GetLatentLoad(l) ==
    \E area \in OptAreas :
        GetDone(l, "get_latent_load", <<area>>, get_latent_load(loads[l], area))

GetLoads(l) ==
    \E area \in OptAreas :
        GetDone(l, "get_loads", <<area>>, get_loads(loads[l], area))

GetAirFlowRate(l) ==
    \E area \in OptAreas, volume \in OptAreas :
        GetDone(l, "get_air_flow_rate", <<area, volume>>,
                get_air_flow_rate(loads[l], area, volume))

GetVapourFlowRate(l) ==
    \E area \in OptAreas, volume \in OptAreas :
        GetDone(l, "get_vapour_flow_rate", <<area, volume>>,
                get_vapour_flow_rate(loads[l], area, volume))

NextLoad ==
    \/ \E l \in InternalLoads(loads) : GetConvectiveLoad(l)
    \/ \E l \in InternalLoads(loads) : GetRadiantLoad(l)
    \/ \E l \in InternalLoads(loads) : GetLatentLoad(l)
    \/ \E l \in InternalLoads(loads) : GetLoads(l)
    \/ \E l \in Ventilations(loads) : GetAirFlowRate(l)
    \/ \E l \in Ventilations(loads) : GetVapourFlowRate(l)

SpecLoad == InitLoad /\ [][NextLoad]_vars

\* the value a call with these arguments computes on a load that has none
Fresh(l) == [l EXCEPT !.cached = FALSE]

FreshValue(l, args) ==
    IF l.cls = "NaturalVentilation"
    THEN NaturalVentilation_get_absolute_value_nominal(Fresh(l), args[1], args[2])
    ELSE get_absolute_value_nominal(Fresh(l), args[1])

\* C5: once a load holds nominal_value_absolute, no later get_* call on any
\* load removes it or changes its value; a load that comes to hold it holds
\* the value computed from the arguments of the call that made it.
C5_NominalValueCached ==
    [][\A l \in DOMAIN loads :
          /\ loads[l].cached
                => /\ loads'[l].cached
                   /\ loads'[l].nominal_value_absolute = loads[l].nominal_value_absolute
          /\ (~loads[l].cached /\ loads'[l].cached)
                => /\ last_call'.obj = l
                   /\ loads'[l] = FreshValue(loads[l], last_call'.args).load]_vars

\* a get_* call returned normally on a load whose held value differs from
\* the one the call's own arguments would give
C5_Witness ==
    /\ last_call.op \in {"get_convective_load", "get_radiant_load", "get_loads",
                         "get_air_flow_rate", "get_vapour_flow_rate"}
    /\ last_call.result = "ok"
    /\ loads[last_call.obj].cached
    /\ FreshValue(loads[last_call.obj], last_call.args).result = "ok"
    /\ FreshValue(loads[last_call.obj], last_call.args).load.nominal_value_absolute
           # loads[last_call.obj].nominal_value_absolute

(***************************************************************************)
(* SpecLoads: two zones of any areas over the same load objects; loads are *)
(* attached with add_internal_load and summed with                         *)
(* extract_convective_radiative_latent_load.                               *)
(***************************************************************************)
MaxLoads == 2        \* longest argument list of add_internal_load, longest list of a zone

InitLoads ==
    \E a1 \in 0..MaxArea, a2 \in 0..MaxArea :
        /\ zones = ("z1" :> ThermalZone_init(<<>>, Num(a1), Num(2)))
                   @@ ("z2" :> ThermalZone_init(<<>>, Num(a2), Num(2)))
        /\ built = ("z1" :> NoBuild) @@ ("z2" :> NoBuild)
        /\ loads = [l \in {"occupancy", "lights", "infiltration"} |-> LoadCatalog[l]]
        /\ sched = NoSchedule
        /\ surfaces = Idle
        /\ materials = Idle
        /\ last_call = Call("ThermalZone", "z2", <<a2, 2>>, "ok", <<>>, {})

AddInternalLoad(z) ==
    \E internal_load \in SeqsUpTo(DOMAIN loads, MaxLoads) :
        /\ Len(zones[z].internal_loads_list) + Len(internal_load) <= MaxLoads
        /\ zones' = [zones EXCEPT ![z] = add_internal_load(@, loads, internal_load).zone]
        /\ last_call' = Call("add_internal_load", z, internal_load,
                             add_internal_load(zones[z], loads, internal_load).result,
                             <<>>, {})
        /\ UNCHANGED <<built, loads, sched, surfaces, materials>>

\* the state extract_convective_radiative_latent_load leaves
ExtractDone(z, r) ==
    /\ zones' = [zones EXCEPT ![z] = r.zone]
    /\ loads' = r.loads
    /\ last_call' = Call("extract_convective_radiative_latent_load", z, <<>>,
                         r.result, r.ret, {})
    /\ UNCHANGED <<built, sched, surfaces, materials>>

ExtractLoads(z) ==
    ExtractDone(z, extract_convective_radiative_latent_load(zones[z], loads))

NextLoads ==
    \/ \E z \in DOMAIN zones : AddInternalLoad(z)
    \/ \E z \in DOMAIN zones : ExtractLoads(z)

SpecLoads == InitLoads /\ [][NextLoads]_vars

\* the three series of one load evaluated with the area of the zone
OwnSeries(z, id) == get_loads(Fresh(loads[id]), Num(zones[z].net_floor_area)).ret

RECURSIVE OwnSum(_, _, _)
OwnSum(z, i, k) ==
    IF i > Len(zones[z].internal_loads_list) THEN Zeros
    ELSE Add(OwnSeries(z, zones[z].internal_loads_list[i])[k], OwnSum(z, i + 1, k))

\* C4: the three series extract_convective_radiative_latent_load leaves on
\* a zone are the element-wise sums, over the loads attached to it, of each
\* load's series evaluated with that zone's own net_floor_area - whatever
\* was done before with the other zone that holds the same load objects.
C4_OwnAreaSums ==
    (/\ last_call.op = "extract_convective_radiative_latent_load"
     /\ last_call.result = "ok")
        => /\ zones[last_call.obj].attr["convective_load"] = OwnSum(last_call.obj, 1, 1)
           /\ zones[last_call.obj].attr["radiative_load"] = OwnSum(last_call.obj, 1, 2)
           /\ zones[last_call.obj].attr["latent_load"] = OwnSum(last_call.obj, 1, 3)

(***************************************************************************)
(* Schedule.  Values and limits are in tenths; the default limits -1e20    *)
(* and 1e20 are stood for by bounds no value of the model reaches.         *)
(***************************************************************************)
MaxLen == 3                     \* longest array handed to a Schedule

DefaultLowerLimit == 0 - 1000   \* -1e20
DefaultUpperLimit == 1000       \* 1e20
PercentLowerLimit == 0          \* 0.
PercentUpperLimit == 10         \* 1.

unit_type == {"dimensionless", "percent", "temperature", "capacity", "power"}

NotStr == "<int>"
TypeArgs == {"dimensionless", "percent", "Percent", "temperature", NotStr}

NotNumber == [is_none |-> FALSE, val |-> 0, text |-> TRUE]
IsNumber(value) == "text" \notin DOMAIN value
LimitArgs == {NoneArg, Num(0), Num(10), NotNumber}

ScheduleValues == {0 - 1, 5, 11}

Array(kind, ndim, values) == [kind |-> kind, ndim |-> ndim, values |-> values]

\* rows that repeat one value
Rows == {[i \in 1..k |-> v] : k \in 1..MaxLen, v \in ScheduleValues}

\* what np.array(_value, dtype=float) is given: numbers in one dimension,
\* numbers in rows, a single number, or text
ArrayArgs ==
    {Array("numeric", 1, v) : v \in SeqsUpTo(ScheduleValues, MaxLen)}
        \cup {Array("numeric", 0, <<v>>) : v \in ScheduleValues}
        \cup {Array("numeric", 2, v) : v \in Rows}
        \cup {Array("text", 1, v) : v \in SeqsUpTo({5}, MaxLen) \ {<<>>}}

SOut(result, schedule) == [result |-> result, schedule |-> schedule]

BlankSchedule ==
    [exists |-> TRUE, schedule_type |-> "", lower_limit |-> 0, upper_limit |-> 0,
     schedule |-> <<>>]

set_schedule_type(o, value) ==
    IF value = NotStr THEN SOut("TypeError", o)
    ELSE IF value \notin unit_type THEN SOut("InvalidScheduleType", o)
    ELSE SOut("ok", [o EXCEPT !.schedule_type = value])

\* if self.schedule_type == "Percent"
IsPercent(schedule_type) == schedule_type = "Percent"

set_lower_limit(o, value) ==
    IF ~value.is_none /\ ~IsNumber(value) THEN SOut("TypeError", o)
    ELSE SOut("ok", [o EXCEPT !.lower_limit =
                        IF IsPercent(o.schedule_type) THEN PercentLowerLimit
                        ELSE IF value.is_none THEN DefaultLowerLimit ELSE value.val])

set_upper_limit(o, value) ==
    IF ~value.is_none /\ ~IsNumber(value) THEN SOut("TypeError", o)
    ELSE SOut("ok", [o EXCEPT !.upper_limit =
                        IF IsPercent(o.schedule_type) THEN PercentUpperLimit
                        ELSE IF value.is_none THEN DefaultUpperLimit ELSE value.val])

\* mutant of AnyGreater: no value is compared with the upper limit
NeverGreater(values, limit) == FALSE

AnyGreater(values, limit) == \E i \in 1..Len(values) : values[i] > limit
AnyLess(values, limit) == \E i \in 1..Len(values) : values[i] < limit

\* mutant of LengthNotConsistent: the length is not checked
LengthNeverChecked(values) == FALSE

\* if len(value) != CONFIG.number_of_time_steps_year
LengthNotConsistent(values) == Len(values) # NumberOfTimeStepsYear

\* mutant of DimensionHigherThanOne: the dimension is not checked
DimensionNeverChecked(value) == FALSE

\* if value.ndim > 1
DimensionHigherThanOne(value) == value.ndim > 1

set_schedule(o, value) ==
    IF value.kind # "numeric" THEN SOut("ValueError", o)
    ELSE IF DimensionHigherThanOne(value) THEN SOut("InvalidScheduleDimension", o)
    ELSE IF AnyGreater(value.values, o.upper_limit)
    THEN SOut("ScheduleOutsideBoundaryCondition", o)
    ELSE IF AnyLess(value.values, o.lower_limit)
    THEN SOut("ScheduleOutsideBoundaryCondition", o)
    ELSE IF value.ndim = 0 THEN SOut("TypeError", o)   \* len() of unsized object
    ELSE IF LengthNotConsistent(value.values) THEN SOut("ScheduleLengthNotConsistent", o)
    ELSE SOut("ok", [o EXCEPT !.schedule = value.values])

\* __init__: the four assignments in the order of the code; r is what the
\* assignments before left
Schedule_init_schedule(r, schedule) ==
    IF r.result # "ok" THEN r ELSE set_schedule(r.schedule, schedule)

Schedule_init_upper(r, schedule, upper_limit) ==
    Schedule_init_schedule(
        IF r.result # "ok" THEN r ELSE set_upper_limit(r.schedule, upper_limit), schedule)

Schedule_init_lower(r, schedule, lower_limit, upper_limit) ==
    Schedule_init_upper(
        IF r.result # "ok" THEN r ELSE set_lower_limit(r.schedule, lower_limit),
        schedule, upper_limit)

Schedule_init(schedule_type, schedule, lower_limit, upper_limit) ==
    Schedule_init_lower(set_schedule_type(BlankSchedule, schedule_type),
                        schedule, lower_limit, upper_limit)

(***************************************************************************)
(* SpecSchedule: one Schedule, constructed with any arguments and then     *)
(* assigned to.  A constructor that raises leaves no object.               *)
(***************************************************************************)
\* the state the constructor call leaves
Constructed(args, r) ==
    /\ sched = IF r.result = "ok" THEN r.schedule ELSE NoSchedule
    /\ last_call = Call("Schedule", "schedule", args, r.result, <<>>, {})

InitSchedule ==
    /\ zones = Idle
    /\ built = Idle
    /\ loads = Idle
    /\ surfaces = Idle
    /\ materials = Idle
    /\ \E schedule_type \in TypeArgs, schedule \in ArrayArgs,
          lower_limit \in LimitArgs, upper_limit \in LimitArgs :
           Constructed(<<schedule_type, schedule, lower_limit, upper_limit>>,
                       Schedule_init(schedule_type, schedule, lower_limit, upper_limit))

\* the state an assignment leaves
ScheduleDone(name, args, r, kept) ==
    /\ sched' = IF r.result = "ok" THEN r.schedule ELSE kept
    /\ last_call' = Call(name, "schedule", args, r.result, <<>>, {})
    /\ UNCHANGED <<zones, built, loads, surfaces, materials>>

AssignScheduleType ==
    /\ sched.exists
    /\ \E value \in TypeArgs :
           ScheduleDone("schedule_type", <<value>>, set_schedule_type(sched, value), sched)

AssignLowerLimit ==
    /\ sched.exists
    /\ \E value \in LimitArgs :
           ScheduleDone("_lower_limit", <<value>>, set_lower_limit(sched, value), sched)

AssignUpperLimit ==
    /\ sched.exists
    /\ \E value \in LimitArgs :
           ScheduleDone("_upper_limit", <<value>>, set_upper_limit(sched, value), sched)

AssignSchedule ==
    /\ sched.exists
    /\ \E value \in ArrayArgs :
           ScheduleDone("schedule", <<value>>, set_schedule(sched, value), sched)

NextSchedule ==
    \/ AssignScheduleType
    \/ AssignLowerLimit
    \/ AssignUpperLimit
    \/ AssignSchedule

SpecSchedule == InitSchedule /\ [][NextSchedule]_vars

\* the array a constructor call or an assignment to schedule was given
GivenArray == IF last_call.op = "Schedule" THEN last_call.args[2] ELSE last_call.args[1]

\* the limits the array was checked against: those of the object, or those
\* the constructor call was given
LimitAgainst(arg, limit, default) ==
    IF last_call.op = "schedule" THEN limit
    ELSE IF arg.is_none THEN default ELSE arg.val

LowerAgainst == LimitAgainst(last_call.args[3], sched.lower_limit, DefaultLowerLimit)
UpperAgainst == LimitAgainst(last_call.args[4], sched.upper_limit, DefaultUpperLimit)

\* a one-dimensional array of numbers of the wrong length was handed to the
\* constructor, with a valid type and valid limits, or assigned to schedule
WrongLengthGiven ==
    /\ last_call.op \in {"Schedule", "schedule"}
    /\ last_call.op = "Schedule"
          => /\ last_call.args[1] \in unit_type
             /\ IsNumber(last_call.args[3])
             /\ IsNumber(last_call.args[4])
    /\ GivenArray.kind = "numeric"
    /\ GivenArray.ndim = 1
    /\ Len(GivenArray.values) # NumberOfTimeStepsYear

OutsideLimits ==
    \/ AnyGreater(GivenArray.values, UpperAgainst)
    \/ AnyLess(GivenArray.values, LowerAgainst)

C10_PercentLimits ==
    (sched.exists /\ sched.schedule_type \in {"percent", "Percent"})
        => /\ sched.lower_limit = PercentLowerLimit
           /\ sched.upper_limit = PercentUpperLimit

\* an array of numbers in more than one dimension was handed to the
\* constructor, with a valid type and valid limits, or assigned to schedule
MultiDimensionalGiven ==
    /\ last_call.op \in {"Schedule", "schedule"}
    /\ last_call.op = "Schedule"
          => /\ last_call.args[1] \in unit_type
             /\ IsNumber(last_call.args[3])
             /\ IsNumber(last_call.args[4])
    /\ GivenArray.kind = "numeric"
    /\ GivenArray.ndim > 1

\* C11: a schedule value with more than one dimension is rejected with
\* InvalidScheduleDimension whatever its values, bounds and length - the
\* dimension check comes before the bound checks and the length check.
C11_DimensionFirst ==
    MultiDimensionalGiven => last_call.result = "InvalidScheduleDimension"

\* an array in two dimensions, of the wrong length and with a value outside
\* the limits, was assigned to an existing schedule and rejected for its
\* dimension
C11_Witness ==
    /\ MultiDimensionalGiven
    /\ last_call.op = "schedule"
    /\ sched.exists
    /\ OutsideLimits
    /\ Len(GivenArray.values) # NumberOfTimeStepsYear
    /\ last_call.result = "InvalidScheduleDimension"

(***************************************************************************)
(* SpecScheduleArray: one Schedule, constructed with any arguments, whose  *)
(* schedule is then assigned to any number of times.                       *)
(***************************************************************************)
NextScheduleArray == AssignSchedule

SpecScheduleArray == InitSchedule /\ [][NextScheduleArray]_vars

WithinLimits(values, lower_limit, upper_limit) ==
    \A i \in 1..Len(values) : lower_limit <= values[i] /\ values[i] <= upper_limit

\* the stored array is within the limits and of the configured length; the
\* array a successful call was given had one dimension and is the stored one
StoredArrayValid ==
    sched.exists
        => /\ WithinLimits(sched.schedule, sched.lower_limit, sched.upper_limit)
           /\ Len(sched.schedule) = NumberOfTimeStepsYear
           /\ last_call.result = "ok"
                 => GivenArray.ndim = 1 /\ sched.schedule = GivenArray.values

\* a rejected assignment leaves the stored array as it was
RejectedKeeps == last_call'.result # "ok" => sched' = sched

MaxDrift == 3                        \* how far an argument lies off 0.3 or 0.7

FractionOne == 200000                \* 1.
FractionTolerance == 2               \* 1e-5
DefaultFractionRadiant == 60000      \* 0.3
DefaultFractionConvective == 140000  \* 0.7

FractionArgs ==
    {0 - 1, 0, FractionOne, FractionOne + 1}
        \cup {DefaultFractionRadiant + d : d \in 0..MaxDrift}
        \cup {DefaultFractionConvective - d : d \in 0..MaxDrift}

FOut(result, load) == [result |-> result, load |-> load]

\* an InternalLoad before its fractions are assigned: neither attribute exists
BlankLoad(cls) ==
    [cls |-> cls, exists |-> TRUE, attrs |-> {},
     fraction_radiant |-> 0, fraction_convective |-> 0]

NoLoad == [exists |-> FALSE]

\* mutant of SumNotOne: the sum is not checked
SumNeverChecked(value, other) == FALSE

\* abs(value + other - 1.) > 1e-5
SumNotOne(value, other) == Abs(value + other - FractionOne) > FractionTolerance

\* if value < 0 or value > 1.
OutsideRange(value) == value < 0 \/ value > FractionOne

set_fraction_radiant(o, value) ==
    IF OutsideRange(value) THEN FOut("ValueError", o)
    ELSE IF "_fraction_convective" \in o.attrs /\ SumNotOne(value, o.fraction_convective)
    THEN FOut("ConvectiveRadiantFractionError", o)
    ELSE FOut("ok", [o EXCEPT !.attrs = @ \cup {"_fraction_radiant"},
                              !.fraction_radiant = value])

set_fraction_convective(o, value) ==
    IF OutsideRange(value) THEN FOut("ValueError", o)
    ELSE IF "_fraction_radiant" \in o.attrs /\ SumNotOne(value, o.fraction_radiant)
    THEN FOut("ConvectiveRadiantFractionError", o)
    ELSE FOut("ok", [o EXCEPT !.attrs = @ \cup {"_fraction_convective"},
                              !.fraction_convective = value])

\* People.__init__ / ElectricLoad.__init__ / Lights.__init__: the radiant
\* fraction is assigned first, the convective fraction after it
InternalLoad_init_convective(r, fraction_convective) ==
    IF r.result # "ok" THEN r ELSE set_fraction_convective(r.load, fraction_convective)

InternalLoad_init(cls, fraction_radiant, fraction_convective) ==
    InternalLoad_init_convective(set_fraction_radiant(BlankLoad(cls), fraction_radiant),
                                 fraction_convective)

(***************************************************************************)
(* SpecFractions: one People, ElectricLoad or Lights object, constructed   *)
(* with any fractions, then any sequence of assignments to them.           *)
(***************************************************************************)
FractionsConstructed(args, r) ==
    /\ loads = ("load" :> IF r.result = "ok" THEN r.load ELSE NoLoad)
    /\ last_call = Call(args[1], "load", args, r.result, <<>>, {})

InitFractions ==
    /\ zones = Idle
    /\ built = Idle
    /\ sched = NoSchedule
    /\ surfaces = Idle
    /\ materials = Idle
    /\ \E cls \in InternalLoadClasses, fr \in FractionArgs, fc \in FractionArgs :
           FractionsConstructed(<<cls, fr, fc>>, InternalLoad_init(cls, fr, fc))

FractionDone(name, args, r) ==
    /\ loads' = ("load" :> IF r.result = "ok" THEN r.load ELSE loads["load"])
    /\ last_call' = Call(name, "load", args, r.result, <<>>, {})
    /\ UNCHANGED <<zones, built, sched, surfaces, materials>>

AssignFractionRadiant ==
    /\ loads["load"].exists
    /\ \E value \in FractionArgs :
           FractionDone("fraction_radiant", <<value>>,
                        set_fraction_radiant(loads["load"], value))

AssignFractionConvective ==
    /\ loads["load"].exists
    /\ \E value \in FractionArgs :
           FractionDone("fraction_convective", <<value>>,
                        set_fraction_convective(loads["load"], value))

NextFractions ==
    \/ AssignFractionRadiant
    \/ AssignFractionConvective

SpecFractions == InitFractions /\ [][NextFractions]_vars

\* |fraction_radiant + fraction_convective - 1| <= 1e-5
FractionsSumToOne ==
    loads["load"].exists
        => Abs(loads["load"].fraction_radiant + loads["load"].fraction_convective
               - FractionOne) <= FractionTolerance

\* the fraction the assigned one is added to
OtherFraction ==
    IF last_call'.op = "fraction_radiant" THEN loads["load"].fraction_convective
    ELSE loads["load"].fraction_radiant

\* the step assigns a value with which the two fractions do not sum to 1
BreakingAssignment == SumNotOne(last_call'.args[1], OtherFraction)

\* C13 as stated: the two fractions sum to 1 within 1e-5 in every state, and
\* an assignment that would break this raises ConvectiveRadiantFractionError
\* and leaves both fractions unchanged.
C13_Original ==
    /\ []FractionsSumToOne
    /\ [][BreakingAssignment
            => /\ last_call'.result = "ConvectiveRadiantFractionError"
               /\ loads' = loads]_vars

\* C13 amended: the two fractions sum to 1 within 1e-5 in every state; an
\* assignment that would break this leaves both fractions unchanged and
\* raises ValueError when the value is outside [0, 1], which is tested first,
\* and ConvectiveRadiantFractionError otherwise.
C13_Amended ==
    /\ []FractionsSumToOne
    /\ [][BreakingAssignment
            => /\ last_call'.result = IF OutsideRange(last_call'.args[1]) THEN "ValueError"
                                      ELSE "ConvectiveRadiantFractionError"
               /\ loads' = loads]_vars

\* a fraction within [0, 1] that misses the sum by more than the tolerance
\* was assigned to a load whose fractions had drifted within it, and rejected
C13_Witness ==
    /\ loads["load"].exists
    /\ last_call.op \in {"fraction_radiant", "fraction_convective"}
    /\ last_call.result = "ConvectiveRadiantFractionError"
    /\ loads["load"].fraction_radiant + loads["load"].fraction_convective # FractionOne

(***************************************************************************)
(* SpecPeople: one People load of any unit, nominal value, fractions and   *)
(* metabolic rate, and any sequence of get_* calls on it.                  *)
(***************************************************************************)
MaxNominal == 2                 \* largest nominal value of a People load

PeopleUnits == {"W/m2", "px/m2", "W", "px"}
LatentFractions == {0, 45, 100}
SensibleSplits == {<<30, 70>>, <<100, 0>>}
MetabolicRates == {1, 3}

InitPeople ==
    /\ zones = Idle
    /\ built = Idle
    /\ sched = NoSchedule
    /\ surfaces = Idle
    /\ materials = Idle
    /\ \E unit \in PeopleUnits, nominal_value \in 1..MaxNominal, fl \in LatentFractions,
          split \in SensibleSplits, met \in MetabolicRates :
           /\ loads = ("people" :> People(unit, nominal_value, fl, split[1], split[2], met))
           /\ last_call = Call("People", "people", <<unit, nominal_value, fl, split, met>>,
                               "ok", <<>>, {})

NextPeople ==
    \/ \E l \in InternalLoads(loads) : GetConvectiveLoad(l)
    \/ \E l \in InternalLoads(loads) : GetRadiantLoad(l)
    \/ \E l \in InternalLoads(loads) : GetLatentLoad(l)
    \/ \E l \in InternalLoads(loads) : GetLoads(l)

SpecPeople == InitPeople /\ [][NextPeople]_vars

\* N of the claim, for the area A
NominalFor(l, A) ==
    CASE l.unit = "W/m2" -> l.nominal_value * A
      [] l.unit = "px/m2" -> l.nominal_value * A * l.metabolic_rate
      [] l.unit = "W" -> l.nominal_value
      [] l.unit = "px" -> l.nominal_value * l.metabolic_rate

\* the three series of the claim for a given N (the latent one in units of
\* 1 / latent_heat)
SeriesFor(l, N) ==
    <<[t \in Steps |-> (100 - l.fraction_latent) * l.fraction_convective * N * l.schedule[t]],
      [t \in Steps |-> (100 - l.fraction_latent) * l.fraction_radiant * N * l.schedule[t]],
      [t \in Steps |-> 100 * l.fraction_latent * N * l.schedule[t]]>>

\* the step is a call get_loads(area=A)
GetLoadsWithArea == last_call'.op = "get_loads" /\ ~last_call'.args[1].is_none

MaxVertices == 4                \* longest vertex sequence handed to a Surface
MaxPolygonArea == 2             \* largest area polygon_area returns

SurfaceFloor == 2               \* 1e-10
WwrUpper == 999                 \* 0.999
WwrOne == 1000                  \* 1
AzimuthWarning == 16
HeightWarning == 6
AzimuthMax == 100
HeightMax == 50
RoofBelow == 40
FloorAbove == 150

Vertex(is_tuple, components, in_plane) ==
    [is_tuple |-> is_tuple, components |-> components, in_plane |-> in_plane]

InPlane == Vertex(TRUE, 3, TRUE)
OffPlane == Vertex(TRUE, 3, FALSE)
TwoComponents == Vertex(TRUE, 2, TRUE)
ListVertex == Vertex(FALSE, 3, TRUE)

VertexArgs == SeqsUpTo({InPlane, OffPlane, TwoComponents, ListVertex}, MaxVertices)

\* every vertex is a tuple of 3 components
WellFormed(vertices) ==
    \A i \in 1..Len(vertices) : vertices[i].is_tuple /\ vertices[i].components = 3

\* more than three points of which one leaves the plane of the others
OutOfPlane(vertices) ==
    Len(vertices) > 3 /\ \E i \in 1..Len(vertices) : ~vertices[i].in_plane

\* what check_complanarity does with a sequence that holds a vertex which is
\* not a tuple of 3 components: it is called before the later vertices are
\* validated
CheckOnMalformed == {"planar", "nonplanar", "raises"}

\* check_complanarity(value)
check_complanarity(vertices, on_malformed) ==
    IF ~WellFormed(vertices) THEN on_malformed
    ELSE IF OutOfPlane(vertices) THEN "nonplanar"
    ELSE "planar"

\* the outcome of a Surface method: the exception or "ok", the object as the
\* call leaves it, and the warnings the call logged
SfOut(result, surface, logged) == [result |-> result, surface |-> surface, logged |-> logged]

BlankSurface ==
    [exists |-> TRUE, attrs |-> {}, vertices |-> <<>>, area |-> 0, height |-> 0,
     azimuth |-> 0, wwr |-> 0, opaque_area |-> 0, glazed_area |-> 0,
     surface_type |-> "", azimuth_subdivisions |-> 0, height_subdivisions |-> 0,
     height_round |-> 0, azimuth_round |-> 0, sky_view_angle |-> 0]

NoSurface == [exists |-> FALSE]

\* the body of the loop for the vertices from the i-th on: the coplanarity
\* of the whole sequence is checked in the body, once per vertex
RECURSIVE vertices_loop(_, _, _)
vertices_loop(vertices, i, on_malformed) ==
    IF i > Len(vertices) THEN "ok"
    ELSE IF ~vertices[i].is_tuple THEN "TypeError"
    ELSE IF vertices[i].components # 3 THEN "Non3ComponentsVertex"
    ELSE IF check_complanarity(vertices, on_malformed) = "raises" THEN "ErrorInCheck"
    ELSE IF check_complanarity(vertices, on_malformed) = "nonplanar" THEN "NonPlanarSurface"
    ELSE vertices_loop(vertices, i + 1, on_malformed)

set_vertices_store(o, value, result) ==
    IF result # "ok" THEN SfOut(result, o, <<>>)
    ELSE SfOut("ok", [o EXCEPT !.vertices = value], <<>>)

set_vertices(o, value, on_malformed) ==
    IF Len(value) < 3 THEN SfOut("SurfaceWrongNumberOfVertices", o, <<>>)
    ELSE set_vertices_store(o, value, vertices_loop(value, 1, on_malformed))

\* mutant of AreaStored: a zero area is stored as it is
AreaStoredUnfloored(value) == value

\* if float(value) == 0.0: 1e-10, else: value
AreaStored(value) == IF value = 0 THEN SurfaceFloor ELSE value

set_area(o, value) ==
    IF ~IsNumber(value) THEN SfOut("TypeError", o, <<>>)
    ELSE IF value.val < 0 THEN SfOut("NegativeSurfaceArea", o, <<>>)
    ELSE SfOut("ok", [o EXCEPT !.area = AreaStored(value.val)], <<>>)

\* mutant of calc_glazed_and_opaque_areas: the areas are not computed again
calc_no_areas(o, wwr) == o

\* _calc_glazed_and_opaque_areas
calc_glazed_and_opaque_areas(o, wwr) ==
    [o EXCEPT !.opaque_area = (WwrOne - wwr) * o.area, !.glazed_area = wwr * o.area]

set_wwr(o, value) ==
    IF ~IsNumber(value) THEN SfOut("TypeError", o, <<>>)
    ELSE IF value.val < 0 \/ value.val > WwrUpper
    THEN SfOut("WindowToWallRatioOutsideBoundaries", o, <<>>)
    ELSE SfOut("ok", [calc_glazed_and_opaque_areas(o, value.val) EXCEPT !.wwr = value.val],
               <<>>)

\* _set_azimuth_and_zenith: the height and the azimuth of the normal
set_azimuth_and_zenith(o, orientation) ==
    [o EXCEPT !.height = orientation[1], !.azimuth = orientation[2]]

\* the argument of the subdivisions_solar_calc setter
Dict(keys, azimuth_subdivisions, height_subdivisions) ==
    [is_none |-> FALSE, is_dict |-> TRUE, keys |-> keys,
     azimuth_subdivisions |-> azimuth_subdivisions,
     height_subdivisions |-> height_subdivisions]

NotDict ==
    [is_none |-> FALSE, is_dict |-> FALSE, keys |-> {}, azimuth_subdivisions |-> 0,
     height_subdivisions |-> 0]

NoDict ==
    [is_none |-> TRUE, is_dict |-> FALSE, keys |-> {}, azimuth_subdivisions |-> 0,
     height_subdivisions |-> 0]

BothKeys == {"azimuth_subdivisions", "height_subdivisions"}

\* the class attributes of Surface
SurfaceClass ==
    [warning_azimuth_subdivisions |-> FALSE, warning_height_subdivisions |-> FALSE]

\* self.__warning_azimuth_subdivisions, read: the attribute of the object
\* when it has one, the attribute of the class otherwise
WarnedAzimuth(o, class) ==
    IF "__warning_azimuth_subdivisions" \in o.attrs THEN TRUE
    ELSE class.warning_azimuth_subdivisions

WarnedHeight(o, class) ==
    IF "__warning_height_subdivisions" \in o.attrs THEN TRUE
    ELSE class.warning_height_subdivisions

set_azimuth_subdivisions(o, class, value) ==
    IF value < 1 \/ value > AzimuthMax THEN SfOut("ValueError", o, <<>>)
    ELSE IF value > AzimuthWarning /\ ~WarnedAzimuth(o, class)
    THEN SfOut("ok", [o EXCEPT !.attrs = @ \cup {"__warning_azimuth_subdivisions"},
                               !.azimuth_subdivisions = value], <<"azimuth">>)
    ELSE SfOut("ok", [o EXCEPT !.azimuth_subdivisions = value], <<>>)

\* r is what the assignment of the azimuth subdivisions left
set_height_subdivisions(r, class, value) ==
    IF r.result # "ok" THEN r
    ELSE IF value < 1 \/ value > HeightMax THEN SfOut("ValueError", r.surface, r.logged)
    ELSE IF value > HeightWarning /\ ~WarnedHeight(r.surface, class)
    THEN SfOut("ok", [r.surface EXCEPT !.attrs = @ \cup {"__warning_height_subdivisions"},
                                       !.height_subdivisions = value],
               Append(r.logged, "height"))
    ELSE SfOut("ok", [r.surface EXCEPT !.height_subdivisions = value], r.logged)

\* int(): towards zero
Trunc(p, q) == IF p >= 0 THEN p \div q ELSE 0 - ((0 - p) \div q)

\* the last pass of the loop over the height intervals decides: the interval
\* around 90, or a height from its upper end up to 150, gives 90, every
\* other height 0
HeightRound(o) ==
    IF o.height * 2 * o.height_subdivisions >= 180 * o.height_subdivisions - 90
          /\ o.height < FloorAbove
    THEN 90 ELSE 0

\* the interval n of the azimuth holds it: y[n] <= azimuth < y[n + 1]
InAzimuthInterval(o, n) ==
    /\ o.azimuth * o.azimuth_subdivisions >= 360 * n - 180 * o.azimuth_subdivisions - 180
    /\ o.azimuth * o.azimuth_subdivisions < 360 * n - 180 * o.azimuth_subdivisions + 180

AzimuthInterval(o) == CHOOSE n \in 0..o.azimuth_subdivisions : InAzimuthInterval(o, n)

\* int((y[n] + y[n + 1]) / 2), and -180 for 180
AzimuthMid(o, n) ==
    IF Trunc(360 * n - 180 * o.azimuth_subdivisions, o.azimuth_subdivisions) = 180
    THEN 0 - 180
    ELSE Trunc(360 * n - 180 * o.azimuth_subdivisions, o.azimuth_subdivisions)

\* the interval of the height that holds it, when one does
InHeightInterval(o, n) ==
    /\ o.height * 2 * o.height_subdivisions >= 180 * n - 90
    /\ o.height * 2 * o.height_subdivisions < 180 * n + 90

\* _sky_view_factor is computed in the passes that take the if or the elif
\* branch, from the rounded height of that pass: the angle it was last
\* computed from
SkyViewAngle(o) ==
    IF o.height * 2 * o.height_subdivisions >= 180 * o.height_subdivisions + 90 THEN 90
    ELSE Trunc(90 * (CHOOSE n \in 0..o.height_subdivisions : InHeightInterval(o, n)),
               o.height_subdivisions)

HasSkyView(o) ==
    \/ o.height < FloorAbove /\ o.height * 2 * o.height_subdivisions
                                    >= 180 * o.height_subdivisions + 90
    \/ \E n \in 0..o.height_subdivisions : InHeightInterval(o, n)

\* _set_azimuth_and_zenith_solar_radiation
set_azimuth_and_zenith_solar_radiation(o) ==
    [o EXCEPT !.attrs = @ \cup {"_height_round", "_azimuth_round"}
                          \cup (IF HasSkyView(o) THEN {"_sky_view_factor"} ELSE {}),
              !.height_round = HeightRound(o),
              !.azimuth_round = IF HeightRound(o) = 0 THEN 0
                                ELSE AzimuthMid(o, AzimuthInterval(o)),
              !.sky_view_angle = IF HasSkyView(o) THEN SkyViewAngle(o) ELSE @]

\* the end of the setter, r what the two assignments left
set_subdivisions_store(r) ==
    IF r.result # "ok" THEN r
    ELSE SfOut("ok",
               set_azimuth_and_zenith_solar_radiation(
                   [r.surface EXCEPT !.attrs = @ \cup {"_subdivisions_solar_calc"}]),
               r.logged)

set_subdivisions_height(r, class, value) ==
    IF r.result = "ok" /\ "height_subdivisions" \notin value.keys
    THEN SfOut("KeyError", r.surface, r.logged)
    ELSE set_subdivisions_store(set_height_subdivisions(r, class, value.height_subdivisions))

set_subdivisions_solar_calc(o, class, value) ==
    IF ~value.is_dict THEN SfOut("TypeError", o, <<>>)
    ELSE IF "azimuth_subdivisions" \notin value.keys THEN SfOut("KeyError", o, <<>>)
    ELSE set_subdivisions_height(
             set_azimuth_subdivisions(o, class, value.azimuth_subdivisions), class, value)

\* Surface.__init__: the assignments in the order of the code, r what the
\* assignments before left.  surface_type is not assigned.
Surface_init_subdivisions(r, class, subdivisions_solar_calc) ==
    IF r.result # "ok" \/ subdivisions_solar_calc.is_none THEN r
    ELSE set_subdivisions_solar_calc(r.surface, class, subdivisions_solar_calc)

Surface_init_wwr(r, class, wwr, subdivisions_solar_calc) ==
    Surface_init_subdivisions(
        IF r.result # "ok" THEN r
        ELSE set_wwr(r.surface, IF wwr.is_none THEN Num(0) ELSE wwr),
        class, subdivisions_solar_calc)

Surface_init_orientation(r, class, orientation, wwr, subdivisions_solar_calc) ==
    Surface_init_wwr(
        IF r.result # "ok" THEN r
        ELSE SfOut("ok", set_azimuth_and_zenith(r.surface, orientation), <<>>),
        class, wwr, subdivisions_solar_calc)

Surface_init_area(r, class, polygon_area, orientation, wwr, subdivisions_solar_calc) ==
    Surface_init_orientation(
        IF r.result # "ok" THEN r ELSE set_area(r.surface, Num(polygon_area)),
        class, orientation, wwr, subdivisions_solar_calc)

Surface_init(class, vertices, polygon_area, orientation, wwr, subdivisions_solar_calc, on_malformed) ==
    Surface_init_area(set_vertices(BlankSurface, vertices, on_malformed), class,
                      polygon_area, orientation, wwr, subdivisions_solar_calc)

set_surface_type(o, value) ==
    IF value = NotStr THEN SfOut("TypeError", o, <<>>)
    ELSE IF value \notin ExtTypes THEN SfOut("InvalidSurfaceType", o, <<>>)
    ELSE SfOut("ok", [o EXCEPT !.attrs = @ \cup {"_surface_type"}, !.surface_type = value],
               <<>>)

\* the type the tilt gives
AutoSurfaceType(height) ==
    IF height < RoofBelow THEN "Roof"
    ELSE IF height > FloorAbove THEN "GroundFloor"
    ELSE "ExtWall"

set_auto_surface_type(o) == set_surface_type(o, AutoSurfaceType(o.height))

\* the surface as a ThermalZone reads it; the unit of a zone's areas is
\* 100000 times that of a surface's
ZoneSurface(o) == [surface_type |-> o.surface_type, area |-> o.area \div 100000]

(***************************************************************************)
(* SpecSurface: one Surface, constructed with any arguments, then any      *)
(* sequence of assignments to _area, _wwr and surface_type, of calls of    *)
(* _set_auto_surface_type, and of constructions of a ThermalZone over it.  *)
(***************************************************************************)
SurfaceVertexArgs ==
    SeqsUpTo({InPlane, OffPlane, TwoComponents}, MaxVertices)
        \cup {<<InPlane, ListVertex, InPlane>>}

Orientations == {<<39, 0>>, <<40, 0>>, <<150, 0>>, <<151, 0>>}
SurfaceAreaArgs == {Num(a) : a \in (0 - 1)..MaxPolygonArea} \cup {NotNumber}
WwrArgs == {NoneArg, Num(0 - 1), Num(0), Num(400), Num(WwrUpper), Num(WwrOne), NotNumber}
SurfaceTypeArgs == {"Roof", "IntWall", NotStr}
OctantsAndThirds == Dict(BothKeys, 8, 3)

\* the Surface class and its objects when nothing was built or logged
NoSurfaces == [class |-> SurfaceClass, objects |-> Idle, logged |-> <<>>]

\* the state a call of the constructor leaves
SurfaceConstructed(id, args, r) ==
    /\ surfaces = [class |-> SurfaceClass,
                   objects |-> (id :> IF r.result = "ok" THEN r.surface ELSE NoSurface),
                   logged |-> r.logged]
    /\ last_call = Call("Surface", id, args, r.result, <<>>, {})

InitSurface ==
    /\ zones = Idle
    /\ built = Idle
    /\ loads = Idle
    /\ sched = NoSchedule
    /\ materials = Idle
    /\ \E vertices \in SurfaceVertexArgs, polygon_area \in 0..MaxPolygonArea,
          orientation \in Orientations, wwr \in {NoneArg, Num(400), Num(WwrOne)},
          subdivisions_solar_calc \in {NoDict, OctantsAndThirds},
          on_malformed \in CheckOnMalformed :
           SurfaceConstructed("s1",
               <<vertices, polygon_area, orientation, wwr, subdivisions_solar_calc>>,
               Surface_init(SurfaceClass, vertices, polygon_area, orientation, wwr,
                            subdivisions_solar_calc, on_malformed))

\* the state a call on the object id leaves
SurfaceDone(id, name, args, r) ==
    /\ surfaces' = [surfaces EXCEPT !.objects[id] = r.surface,
                                    !.logged = @ \o r.logged]
    /\ last_call' = Call(name, id, args, r.result, <<>>, {})
    /\ UNCHANGED <<zones, built, loads, sched, materials>>

AssignArea(id) ==
    /\ surfaces.objects[id].exists
    /\ \E value \in SurfaceAreaArgs :
           SurfaceDone(id, "_area", <<value>>, set_area(surfaces.objects[id], value))

AssignWwr(id) ==
    /\ surfaces.objects[id].exists
    /\ \E value \in WwrArgs \ {NoneArg} :
           SurfaceDone(id, "_wwr", <<value>>, set_wwr(surfaces.objects[id], value))

AssignSurfaceType(id) ==
    /\ surfaces.objects[id].exists
    /\ \E value \in SurfaceTypeArgs :
           SurfaceDone(id, "surface_type", <<value>>,
                       set_surface_type(surfaces.objects[id], value))

SetAutoSurfaceType(id) ==
    /\ surfaces.objects[id].exists
    /\ SurfaceDone(id, "_set_auto_surface_type", <<>>,
                   set_auto_surface_type(surfaces.objects[id]))

\* ThermalZone(name, [surface]): the floor area is summed over the surfaces
\* whose _surface_type is GroundFloor
ThermalZoneOver(id) ==
    /\ surfaces.objects[id].exists
    /\ zones' = IF "_surface_type" \in surfaces.objects[id].attrs
                THEN ("z1" :> ThermalZone_init(<<ZoneSurface(surfaces.objects[id])>>,
                                               NoneArg, NoneArg))
                ELSE zones
    /\ last_call' = Call("ThermalZone", "z1", <<id>>,
                         IF "_surface_type" \in surfaces.objects[id].attrs
                         THEN "ok" ELSE "AttributeError",
                         <<>>, {})
    /\ UNCHANGED <<built, loads, sched, surfaces, materials>>

NextSurface ==
    \/ \E id \in DOMAIN surfaces.objects : AssignArea(id)
    \/ \E id \in DOMAIN surfaces.objects : AssignWwr(id)
    \/ \E id \in DOMAIN surfaces.objects : AssignSurfaceType(id)
    \/ \E id \in DOMAIN surfaces.objects : SetAutoSurfaceType(id)
    \/ \E id \in DOMAIN surfaces.objects : ThermalZoneOver(id)

SpecSurface == InitSurface /\ [][NextSurface]_vars

\* the vertices a constructor call was given are all tuples
AllTuples == \A i \in 1..Len(last_call.args[1]) : last_call.args[1][i].is_tuple

GivenArea == IF last_call.op = "Surface" THEN last_call.args[2] ELSE last_call.args[1].val

AreaGiven ==
    \/ last_call.op = "Surface"
    \/ last_call.op = "_area" /\ IsNumber(last_call.args[1])

\* the stored area is positive; an accepted zero is stored as 1e-10, an
\* accepted positive area as it is, and a negative one is rejected
AreaPositive ==
    /\ surfaces.objects["s1"].exists => surfaces.objects["s1"].area > 0
    /\ (AreaGiven /\ last_call.result = "ok")
          => surfaces.objects["s1"].area
                 = IF GivenArea = 0 THEN SurfaceFloor ELSE GivenArea
    /\ (AreaGiven /\ last_call.op = "_area")
          => (last_call.result = "NegativeSurfaceArea" <=> GivenArea < 0)

\* an assignment of a negative area leaves the object as it was
NegativeKeeps ==
    (last_call'.op = "_area" /\ last_call'.result = "NegativeSurfaceArea")
        => surfaces' = surfaces

\* C16: the stored area of a Surface is strictly positive in every reachable
\* state - a computed area of exactly zero is stored as 1e-10, a positive
\* area unchanged, and a negative area is rejected with NegativeSurfaceArea
\* without changing the stored area.
C16_AreaPositive == []AreaPositive /\ [][NegativeKeeps]_vars

\* a zero area was assigned to a surface and stored as 1e-10
C16_Witness ==
    /\ last_call.op = "_area"
    /\ last_call.args[1] = Num(0)
    /\ last_call.result = "ok"
    /\ surfaces.objects["s1"].area = SurfaceFloor

(***************************************************************************)
(* SpecWwr: one Surface, constructed with any arguments, then any sequence *)
(* of assignments to _wwr.                                                 *)
(***************************************************************************)
NextWwr == \E id \in DOMAIN surfaces.objects : AssignWwr(id)

SpecWwr == InitSurface /\ [][NextWwr]_vars

\* the two areas are the shares of the area that the stored wwr gives, and a
\* successful assignment stores the wwr it was given
AreasSplit ==
    surfaces.objects["s1"].exists
        => /\ surfaces.objects["s1"].opaque_area
                  = (WwrOne - surfaces.objects["s1"].wwr) * surfaces.objects["s1"].area
           /\ surfaces.objects["s1"].glazed_area
                  = surfaces.objects["s1"].wwr * surfaces.objects["s1"].area
           /\ surfaces.objects["s1"].opaque_area + surfaces.objects["s1"].glazed_area
                  = WwrOne * surfaces.objects["s1"].area
           /\ (last_call.op = "_wwr" /\ last_call.result = "ok")
                 => surfaces.objects["s1"].wwr = last_call.args[1].val

\* an assignment is rejected exactly when the value is outside [0, 0.999],
\* and a rejected assignment leaves the object as it was
WwrRejectedKeeps ==
    /\ IsNumber(last_call'.args[1])
          => (last_call'.result = "WindowToWallRatioOutsideBoundaries"
                 <=> (last_call'.args[1].val < 0 \/ last_call'.args[1].val > WwrUpper))
    /\ last_call'.result # "ok" => surfaces' = surfaces

\* C17: after construction and any sequence of wwr assignments, opaque_area
\* = (1 - wwr) * area and glazed_area = wwr * area for the last accepted
\* wwr, so the two sum to the area; an assignment rejected with
\* WindowToWallRatioOutsideBoundaries leaves wwr and both areas unchanged.
C17_AreasSplit == []AreasSplit /\ [][WwrRejectedKeeps]_vars

\* a wwr of 1 was assigned to a glazed surface and rejected
C17_Witness ==
    /\ last_call.op = "_wwr"
    /\ last_call.args[1] = Num(WwrOne)
    /\ last_call.result = "WindowToWallRatioOutsideBoundaries"
    /\ surfaces.objects["s1"].wwr > 0
    /\ surfaces.objects["s1"].glazed_area > 0

\* C18: once its construction completes, a Surface constructed without a
\* surface_type has the type its tilt gives - Roof when height < 40,
\* GroundFloor when height > 150, ExtWall otherwise - and a ThermalZone
\* built over it can read the type.
C18_AutoSurfaceType ==
    /\ (last_call.op = "Surface" /\ last_call.result = "ok")
          => /\ "_surface_type" \in surfaces.objects["s1"].attrs
             /\ surfaces.objects["s1"].surface_type
                    = IF surfaces.objects["s1"].height < RoofBelow THEN "Roof"
                      ELSE IF surfaces.objects["s1"].height > FloorAbove THEN "GroundFloor"
                      ELSE "ExtWall"
    /\ last_call.op = "ThermalZone" => last_call.result = "ok"

(***************************************************************************)
(* Material and AirGapMaterial.  The limits of the properties are whole    *)
(* numbers of the model; resistance is the pair <<thick, cond>> that       *)
(* stands for thick / cond.                                                *)
(***************************************************************************)
MaxProperty == 5                \* largest value handed to a property

\* material_limits, by the name of the property in the table
material_limits ==
    [thickness |-> <<1, 3>>, density |-> <<2, 4>>, conductivity |-> <<1, 2>>,
     specific_heat |-> <<3, 4>>, thermal_resistance |-> <<2, 3>>]

\* the name in the table of the property an attribute holds
LimitName ==
    [thick |-> "thickness", dens |-> "density", cond |-> "conductivity",
     spec_heat |-> "specific_heat", resistance |-> "thermal_resistance"]

PropertyArgs == {Num(v) : v \in 0..MaxProperty} \cup {NotNumber}

MOut(result, material, ret) == [result |-> result, material |-> material, ret |-> ret]

BlankMaterial(cls) ==
    [cls |-> cls, exists |-> TRUE, thick |-> 0, dens |-> 0, cond |-> 0, spec_heat |-> 0,
     resistance |-> 0, capacity |-> 0]

NoMaterial == [exists |-> FALSE]

\* what the exception carries
OutsideBoundaries(prop, lim, value) == [prop |-> prop, lim |-> lim, value |-> value]

\* mutant of OutOfBounds: only the upper limit is tested
OutOfBoundsAbove(value, lim) == value > lim[2]

\* value < lim[0] or value > lim[1]
OutOfBounds(value, lim) == value < lim[1] \/ value > lim[2]

\* the setters of thick, dens, cond and spec_heat of Material and of thick
\* and resistance of AirGapMaterial
set_property(o, attr, value) ==
    IF ~IsNumber(value) THEN MOut("TypeError", o, <<>>)
    ELSE IF OutOfBounds(value.val, material_limits[LimitName[attr]])
    THEN MOut("MaterialPropertyOutsideBoundaries", o,
              OutsideBoundaries(LimitName[attr], material_limits[LimitName[attr]],
                                value.val))
    ELSE MOut("ok", [o EXCEPT ![attr] = value.val], <<>>)

\* the next assignment of a constructor, r what the assignments before left
ThenSet(r, attr, value) ==
    IF r.result # "ok" THEN r ELSE set_property(r.material, attr, value)

\* calc_paramas
calc_paramas(r) ==
    IF r.result # "ok" THEN r
    ELSE MOut("ok", [r.material EXCEPT
                         !.capacity = r.material.thick * r.material.dens
                                          * r.material.spec_heat,
                         !.resistance = <<r.material.thick, r.material.cond>>], <<>>)

Material_init(thick, cond, spec_heat, dens) ==
    calc_paramas(
        ThenSet(ThenSet(ThenSet(set_property(BlankMaterial("Material"), "thick", thick),
                                "dens", dens),
                        "cond", cond),
                "spec_heat", spec_heat))

AirGapMaterial_init(thick, resistance) ==
    ThenSet(set_property(BlankMaterial("AirGapMaterial"), "thick", thick),
            "resistance", resistance)

(***************************************************************************)
(* SpecMaterial: one Material or AirGapMaterial, constructed with any      *)
(* arguments, then any sequence of assignments to its properties.          *)
(***************************************************************************)
MaterialConstructed(cls, args, r) ==
    /\ materials = ("m" :> IF r.result = "ok" THEN r.material ELSE NoMaterial)
    /\ last_call = Call(cls, "m", args, r.result, r.ret, {})

InitMaterial ==
    /\ zones = Idle
    /\ built = Idle
    /\ loads = Idle
    /\ sched = NoSchedule
    /\ surfaces = Idle
    /\ \/ \E thick \in PropertyArgs, cond \in PropertyArgs, spec_heat \in PropertyArgs,
             dens \in PropertyArgs :
              MaterialConstructed("Material",
                                  [thick |-> thick, cond |-> cond, spec_heat |-> spec_heat,
                                   dens |-> dens],
                                  Material_init(thick, cond, spec_heat, dens))
       \/ \E thick \in PropertyArgs, resistance \in PropertyArgs :
              MaterialConstructed("AirGapMaterial",
                                  [thick |-> thick, resistance |-> resistance],
                                  AirGapMaterial_init(thick, resistance))

MaterialDone(attr, value, r) ==
    /\ materials' = ("m" :> IF r.result = "ok" THEN r.material ELSE materials["m"])
    /\ last_call' = Call(attr, "m", (attr :> value), r.result, r.ret, {})
    /\ UNCHANGED <<zones, built, loads, sched, surfaces>>

Assign(attr) ==
    \E value \in PropertyArgs : MaterialDone(attr, value, set_property(materials["m"], attr, value))

AssignThick == materials["m"].exists /\ Assign("thick")

AssignDens == materials["m"].exists /\ materials["m"].cls = "Material" /\ Assign("dens")

AssignCond == materials["m"].exists /\ materials["m"].cls = "Material" /\ Assign("cond")

AssignSpecHeat ==
    materials["m"].exists /\ materials["m"].cls = "Material" /\ Assign("spec_heat")

AssignResistance ==
    materials["m"].exists /\ materials["m"].cls = "AirGapMaterial" /\ Assign("resistance")

NextMaterial ==
    \/ AssignThick
    \/ AssignDens
    \/ AssignCond
    \/ AssignSpecHeat
    \/ AssignResistance

SpecMaterial == InitMaterial /\ [][NextMaterial]_vars

\* the order in which a constructor assigns its arguments
AssignedInOrder(cls) ==
    IF cls = "Material" THEN <<"thick", "dens", "cond", "spec_heat">>
    ELSE <<"thick", "resistance">>

Refused(attr, value) ==
    \/ ~IsNumber(value)
    \/ value.val < material_limits[LimitName[attr]][1]
    \/ value.val > material_limits[LimitName[attr]][2]

\* what the assignment of value to attr must have done, if it is refused
RefusedAsClaimed(attr, value) ==
    IF ~IsNumber(value) THEN last_call.result = "TypeError"
    ELSE /\ last_call.result = "MaterialPropertyOutsideBoundaries"
         /\ last_call.ret.value = value.val
         /\ last_call.ret.prop = LimitName[attr]
         /\ last_call.ret.lim = material_limits[LimitName[attr]]

\* the first refused argument of a constructor, 0 when there is none
FirstRefused(order, args) ==
    IF \A i \in 1..Len(order) : ~Refused(order[i], args[order[i]]) THEN 0
    ELSE CHOOSE i \in 1..Len(order) :
             /\ Refused(order[i], args[order[i]])
             /\ \A j \in 1..(i - 1) : ~Refused(order[j], args[order[j]])

ConstructorAsClaimed(order) ==
    IF FirstRefused(order, last_call.args) = 0
    THEN last_call.result = "ok" /\ materials["m"].exists
    ELSE /\ RefusedAsClaimed(order[FirstRefused(order, last_call.args)],
                             last_call.args[order[FirstRefused(order, last_call.args)]])
         /\ ~materials["m"].exists

AssignmentAsClaimed ==
    IF last_call.op \in {"Material", "AirGapMaterial"}
    THEN ConstructorAsClaimed(AssignedInOrder(last_call.op))
    ELSE IF Refused(last_call.op, last_call.args[last_call.op])
    THEN RefusedAsClaimed(last_call.op, last_call.args[last_call.op])
    ELSE /\ last_call.result = "ok"
         /\ materials["m"][last_call.op] = last_call.args[last_call.op].val

RefusedKeepsProperty == last_call'.result # "ok" => materials' = materials

\* C19: an out-of-bounds value assigned to thick, cond, dens or spec_heat of
\* a Material, or to thick or resistance of an AirGapMaterial, in the
\* constructor or later, raises MaterialPropertyOutsideBoundaries carrying
\* the value, the name of the property and its limits, and the stored
\* property keeps its value; a value that is not a number raises TypeError.
C19_OutOfBoundsRefused == []AssignmentAsClaimed /\ [][RefusedKeepsProperty]_vars

\* a later assignment of an out-of-bounds number was refused with the
\* exception, the Material keeping the thickness it was constructed with
C19_Witness ==
    /\ last_call.op = "thick"
    /\ last_call.result = "MaterialPropertyOutsideBoundaries"
    /\ last_call.ret.value = 0
    /\ materials["m"].cls = "Material"
    /\ materials["m"].thick = 2

(***************************************************************************)
(* SpecSubdivisions: the Surface objects of one process.  A first Surface  *)
(* is constructed, then any sequence of further constructions and of       *)
(* assignments to subdivisions_solar_calc; the geometry is the same valid  *)
(* one throughout.  surfaces.logged is what the process has logged.        *)
(***************************************************************************)
MaxLogged == 3                  \* no construction or assignment once this much is logged

SurfaceIds == {"s1", "s2"}

SubdivisionCounts ==
    {Dict(BothKeys, a, h) : a \in {8, AzimuthWarning + 1, AzimuthMax + 1},
                            h \in {3, HeightWarning + 1, HeightMax + 1}}

SubdivisionArgs ==
    SubdivisionCounts \cup {NotDict, Dict({"height_subdivisions"}, 0, 3),
                            Dict({"azimuth_subdivisions"}, 8, 0)}

Square == <<InPlane, InPlane, InPlane, InPlane>>

\* Surface(name, vertices=Square, subdivisions_solar_calc=value)
SurfaceWith(class, value) ==
    Surface_init(class, Square, 1, <<90, 0>>, NoneArg, value, "planar")

InitSubdivisions ==
    /\ zones = Idle
    /\ built = Idle
    /\ loads = Idle
    /\ sched = NoSchedule
    /\ materials = Idle
    /\ \E value \in SubdivisionArgs \cup {NoDict} :
           /\ surfaces = [class |-> SurfaceClass,
                          objects |-> [id \in SurfaceIds |->
                                           IF id = "s1" /\ SurfaceWith(SurfaceClass, value).result = "ok"
                                           THEN SurfaceWith(SurfaceClass, value).surface
                                           ELSE NoSurface],
                          logged |-> SurfaceWith(SurfaceClass, value).logged]
           /\ last_call = Call("Surface", "s1", <<value>>,
                               SurfaceWith(SurfaceClass, value).result, <<>>, {})

\* id = Surface(...): the name is bound to the new object when the
\* constructor returns, and keeps what it was bound to when it raises
SurfaceBuilt(id, value, r) ==
    /\ surfaces' = [surfaces EXCEPT !.objects[id] = IF r.result = "ok" THEN r.surface ELSE @,
                                    !.logged = @ \o r.logged]
    /\ last_call' = Call("Surface", id, <<value>>, r.result, <<>>, {})
    /\ UNCHANGED <<zones, built, loads, sched, materials>>

ConstructSurface(id) ==
    /\ Len(surfaces.logged) + 2 <= MaxLogged
    /\ \E value \in SubdivisionArgs \cup {NoDict} :
           SurfaceBuilt(id, value, SurfaceWith(surfaces.class, value))

AssignSubdivisions(id) ==
    /\ Len(surfaces.logged) + 2 <= MaxLogged
    /\ surfaces.objects[id].exists
    /\ \E value \in SubdivisionArgs :
           SurfaceDone(id, "subdivisions_solar_calc", <<value>>,
                       set_subdivisions_solar_calc(surfaces.objects[id], surfaces.class,
                                                   value))

NextSubdivisions ==
    \/ \E id \in SurfaceIds : ConstructSurface(id)
    \/ \E id \in SurfaceIds : AssignSubdivisions(id)

SpecSubdivisions == InitSubdivisions /\ [][NextSubdivisions]_vars

\* how many times the warning of the kind was logged
Warnings(kind) ==
    Cardinality({i \in 1..Len(surfaces.logged) : surfaces.logged[i] = kind})

\* both counts of the last call are given and within the allowed range
CountsInRange ==
    /\ last_call.args[1].is_dict
    /\ last_call.args[1].keys = BothKeys
    /\ last_call.args[1].azimuth_subdivisions \in 1..AzimuthMax
    /\ last_call.args[1].height_subdivisions \in 1..HeightMax

\* C20: over any constructions of Surface objects and assignments to
\* subdivisions_solar_calc in one process, the warning for a high azimuth
\* count is logged at most once and the warning for a high height count at
\* most once, and counts within the allowed range never raise.
C20_WarnedOnce ==
    /\ Warnings("azimuth") <= 1
    /\ Warnings("height") <= 1
    /\ CountsInRange => last_call.result = "ok"

(***************************************************************************)
(* SpecSolar: one Surface of any orientation, constructed with or without  *)
(* subdivision counts, then any sequence of assignments to                 *)
(* subdivisions_solar_calc and surface_type and of look-ups of its         *)
(* irradiance in a WeatherFile.  The counts divide 360 and 90, so that     *)
(* the centres of the intervals and the keys of the table are whole        *)
(* degrees.                                                                *)
(***************************************************************************)
\* <<height, azimuth>> as _set_azimuth_and_zenith leaves them: a horizontal
\* surface has the azimuth 0
SolarHeights == {20, 45, 90, 120}
SolarAzimuths == {0 - 180, 0 - 90, 0, 30, 179}
SolarOrientations ==
    {<<0, 0>>, <<180, 0>>} \cup {<<h, a>> : h \in SolarHeights, a \in SolarAzimuths}
SolarCounts == {Dict(BothKeys, a, h) : a \in {4, 8}, h \in {2, 3}}

\* np.linspace(-180, 180, azimuth_subdivisions + 1)[:-1]
azimuth_array(azimuth_subdivisions) ==
    {(360 * k) \div azimuth_subdivisions - 180 : k \in 0..(azimuth_subdivisions - 1)}

\* np.linspace(90, 0, height_subdivisions + 1)[:-1]
height_array(height_subdivisions) ==
    {90 - (90 * k) \div height_subdivisions : k \in 0..(height_subdivisions - 1)}

\* irradiances[float(surface._azimuth_round)][float(surface._height_round)]
\* of a wall or roof with a window, in the table of a WeatherFile built
\* with the counts of weather
irradiance(o, weather) ==
    IF ~{"_azimuth_round", "_height_round"} \subseteq o.attrs THEN "AttributeError"
    ELSE IF o.azimuth_round \notin azimuth_array(weather.azimuth_subdivisions)
    THEN "KeyError"
    ELSE IF o.height_round \notin height_array(weather.height_subdivisions)
    THEN "KeyError"
    ELSE "ok"

InitSolar ==
    /\ zones = Idle
    /\ built = Idle
    /\ loads = Idle
    /\ sched = NoSchedule
    /\ materials = Idle
    /\ \E orientation \in SolarOrientations,
          subdivisions_solar_calc \in SolarCounts \cup {NoDict} :
           SurfaceConstructed("s1", <<orientation, subdivisions_solar_calc>>,
               Surface_init(SurfaceClass, Square, 1, orientation, NoneArg,
                            subdivisions_solar_calc, "planar"))

AssignSolarCounts(id) ==
    /\ surfaces.objects[id].exists
    /\ \E value \in SolarCounts :
           SurfaceDone(id, "subdivisions_solar_calc", <<value>>,
                       set_subdivisions_solar_calc(surfaces.objects[id], surfaces.class,
                                                   value))

\* the look-up in the loop of calculate_zone_loads_ISO13790 and of
\* calculate_zone_loads_VDI6007, for a surface that has a window
LookUpIrradiance(id) ==
    /\ surfaces.objects[id].exists
    /\ "_surface_type" \in surfaces.objects[id].attrs
    /\ surfaces.objects[id].surface_type \in {"ExtWall", "Roof"}
    /\ \E weather \in SolarCounts :
           /\ last_call' = Call("irradiances", id, <<weather>>,
                                irradiance(surfaces.objects[id], weather), <<>>, {})
           /\ UNCHANGED <<zones, built, loads, sched, surfaces, materials>>

NextSolar ==
    \/ \E id \in DOMAIN surfaces.objects : AssignSolarCounts(id)
    \/ \E id \in DOMAIN surfaces.objects : AssignSurfaceType(id)
    \/ \E id \in DOMAIN surfaces.objects : LookUpIrradiance(id)

SpecSolar == InitSolar /\ [][NextSolar]_vars

\* the angle between two azimuths, around the circle
AzimuthApart(a, b) == IF Abs(a - b) > 180 THEN 360 - Abs(a - b) ELSE Abs(a - b)

\* the rounded angles are within half an interval of the angles of the
\* surface, the intervals 180 / height_subdivisions and
\* 360 / azimuth_subdivisions wide: what the centre of any interval of that
\* width that holds the angle satisfies
SnappedToCentre(o) ==
    /\ 2 * o.height_subdivisions * Abs(o.height_round - o.height) <= 180
    /\ 2 * o.azimuth_subdivisions * AzimuthApart(o.azimuth_round, o.azimuth) <= 360

\* C21: for every Surface and every allowed pair of subdivision counts,
\* _set_azimuth_and_zenith_solar_radiation leaves in height_round the centre
\* of the interval of width 180 / height_subdivisions that holds the height
\* of the surface, and in azimuth_round the centre of the interval of width
\* 360 / azimuth_subdivisions that holds its azimuth.
C21_SnappedToCentre ==
    \A id \in DOMAIN surfaces.objects :
        (surfaces.objects[id].exists /\ "_height_round" \in surfaces.objects[id].attrs)
            => SnappedToCentre(surfaces.objects[id])

\* C22: the look-up of the irradiance of an ExtWall or Roof surface never
\* misses a key when the WeatherFile was built with the subdivision counts
\* of the surface, a horizontal roof included.
C22_KeyFound ==
    (/\ last_call.op = "irradiances"
     /\ "_subdivisions_solar_calc" \in surfaces.objects[last_call.obj].attrs
     /\ last_call.args[1].azimuth_subdivisions
            = surfaces.objects[last_call.obj].azimuth_subdivisions
     /\ last_call.args[1].height_subdivisions
            = surfaces.objects[last_call.obj].height_subdivisions)
        => last_call.result = "ok"

(***************************************************************************)
(* The network of _VDI6007_params, with its values.  A resistance is a     *)
(* fraction <<n, d>> with d > 0; the inside surface resistances are the    *)
(* reciprocals of whole conductances (h_si of a construction, h_i of a     *)
(* window), so every sum of the code is a whole number.  The 1e-15 that    *)
(* a surface without window adds to a sum of conductances is left out.     *)
(***************************************************************************)
MaxImpedance == 3               \* R1AW of impedence_parallel is 1 / k, k up to this

alphaStr == 5
alphaKonA == 20

Single == [u_value |-> 30, k_int |-> 3, k_est |-> 1, h_si |-> 8]
Masonry == [u_value |-> 2, k_int |-> 3, k_est |-> 1, h_si |-> 8]
Pane == [u_value |-> 3, h_i |-> 8]

OuterGlazed == Surf("ExtWall", 10, 4, TRUE, Masonry, TRUE, Pane)
OuterOpaque == Surf("ExtWall", 10, 0, TRUE, Masonry, FALSE, NoWindow)
OuterSingle == Surf("Roof", 2, 0, TRUE, Single, FALSE, NoWindow)
OuterGround == Surf("GroundFloor", 4, 0, TRUE, Masonry, FALSE, NoWindow)
InnerWall == Surf("IntWall", 6, 0, TRUE, Masonry, FALSE, NoWindow)
InnerCeiling == Surf("IntCeiling", 12, 0, TRUE, Masonry, FALSE, NoWindow)
\* a surface whose _surface_type is none of the six
Shading == Surf("Shading", 5, 0, TRUE, Masonry, FALSE, NoWindow)

NetworkSurfaces ==
    {OuterGlazed, OuterOpaque, OuterSingle, OuterGround, InnerWall, InnerCeiling, Shading}

\* the sum over the surfaces of the given types of what Term gives
SumOver(surface_list, types, Term(_)) ==
    SumSeq([i \in 1..Len(surface_list) |->
                IF surface_list[i].surface_type \in types THEN Term(surface_list[i]) ELSE 0])

\* what one surface appends to HAW_v, HAF_v, alphaKonAW, alphaKonAF,
\* 1 / RalphaStrAW, 1 / RalphaStrAF, AreaAW, AreaAF, AreaIW
HAW_of(surface) == surface.construction.u_value * surface.opaque_area
alphaKon_opaque(surface) == surface.opaque_area * (surface.construction.h_si - alphaStr)
alphaKon_glazed(surface) ==
    IF surface.has_window THEN surface.glazed_area * (surface.window.h_i - alphaStr) ELSE 0
alphaStr_opaque(surface) == surface.opaque_area * alphaStr
alphaStr_glazed(surface) ==
    IF surface.has_window THEN surface.glazed_area * alphaStr ELSE 0
opaque_area_of(surface) == surface.opaque_area
glazed_area_of(surface) == surface.glazed_area
area_of(surface) == surface.area

Frac(n, d) == <<n, d>>
Minus(a, b) == <<a[1] * b[2] - b[1] * a[2], a[2] * b[2]>>
Below(a, b) == a[1] * b[2] < b[1] * a[2]

\* 10 ** (-10): below every positive fraction of the model
Threshold == <<"1e-10">>
BelowThreshold(a) == a[1] <= 0

\* the comparison when the glazed area of the outer surfaces is counted too
OuterWithGlazedNotAboveInner(surface_list) ==
    SumOver(surface_list, ExtTypes, opaque_area_of)
        + SumOver(surface_list, ExtTypes, glazed_area_of)
        <= SumOver(surface_list, IntTypes, area_of)

\* sum(AreaAW) <= sum(AreaIW)
OuterNotAboveInner(surface_list) ==
    SumOver(surface_list, ExtTypes, opaque_area_of)
        <= SumOver(surface_list, IntTypes, area_of)

\* RalphaStrAWIW: eq 29 or eq 31
RalphaStrAWIW_of(surface_list) ==
    IF OuterNotAboveInner(surface_list)
    THEN Frac(1, SumOver(surface_list, ExtTypes, alphaStr_opaque)
                    + SumOver(surface_list, ExtTypes, alphaStr_glazed))
    ELSE Frac(1, SumOver(surface_list, IntTypes, alphaStr_opaque))

\* RgesAW: eq 27
RgesAW_of(surface_list) ==
    Frac(1, SumOver(surface_list, ExtTypes, HAW_of)
               + SumOver(surface_list, ExtTypes, GlazedConductance))

\* 1 / (1 / RalphaKonAW + 1 / RalphaStrAWIW)
KonStrParallel(surface_list) ==
    Frac(1, SumOver(surface_list, ExtTypes, alphaKon_opaque)
               + SumOver(surface_list, ExtTypes, alphaKon_glazed)
               + RalphaStrAWIW_of(surface_list)[2])

RalphaGesAW_A_of(surface_list) ==
    Frac(1, alphaKonA * (SumOver(surface_list, ExtTypes, glazed_area_of)
                            + SumOver(surface_list, ExtTypes, opaque_area_of)))

\* mutant of Floored_R1AW: no threshold
Unfloored_R1AW(R1AW) == R1AW

\* eq 28c
Floored_R1AW(R1AW) == IF BelowThreshold(R1AW) THEN Threshold ELSE R1AW

\* eq 28, 28a, 28b, 28c: RrestAW and R1AW, R1AW being what impedence_parallel
\* returned
network(surface_list, R1AW) ==
    IF Below(RgesAW_of(surface_list), RalphaGesAW_A_of(surface_list))
    THEN [RgesAW |-> RgesAW_of(surface_list),
          RalphaStrAWIW |-> RalphaStrAWIW_of(surface_list),
          RrestAW |-> RalphaGesAW_A_of(surface_list),
          R1AW |-> Floored_R1AW(Minus(Minus(RgesAW_of(surface_list),
                                            RalphaGesAW_A_of(surface_list)),
                                      KonStrParallel(surface_list)))]
    ELSE [RgesAW |-> RgesAW_of(surface_list),
          RalphaStrAWIW |-> RalphaStrAWIW_of(surface_list),
          RrestAW |-> Minus(Minus(RgesAW_of(surface_list), R1AW),
                            KonStrParallel(surface_list)),
          R1AW |-> R1AW]

(***************************************************************************)
(* SpecNetwork: one zone over any list of surfaces, a surface of           *)
(* unrecognised type among them, and any sequence of _VDI6007_params       *)
(* builds.  built holds the network of the last completed build.           *)
(***************************************************************************)
InitNetwork ==
    \E sl \in SeqsUpTo(NetworkSurfaces, MaxSurfaces) :
        /\ zones = ("z1" :> ThermalZone_init(sl, NoneArg, NoneArg))
        /\ built = ("z1" :> NoBuild)
        /\ loads = Idle
        /\ sched = NoSchedule
        /\ surfaces = Idle
        /\ materials = Idle
        /\ last_call = Call("ThermalZone", "z1", <<AreaInput(sl, NoneArg), 0>>, "ok", <<>>,
                            InitLog(sl, NoneArg, NoneArg))

NetworkDone(z, R1AW, r) ==
    /\ zones' = [zones EXCEPT ![z] = r.zone]
    /\ built' = IF r.result = "ok"
                THEN [built EXCEPT ![z] = ("_VDI6007_params"
                                              :> network(zones[z].surface_list, R1AW))]
                ELSE built
    /\ last_call' = Call("_VDI6007_params", z, <<R1AW>>, r.result, <<>>, {})
    /\ UNCHANGED <<loads, sched, surfaces, materials>>

VDI6007Network(z) ==
    \E on_empty \in ImpedenceParallelOnEmpty, k \in 1..MaxImpedance :
        NetworkDone(z, Frac(1, k), VDI6007_params(zones[z], on_empty))

NextNetwork == \E z \in DOMAIN zones : VDI6007Network(z)

SpecNetwork == InitNetwork /\ [][NextNetwork]_vars

Recognised == {"ExtWall", "GroundFloor", "Roof", "IntWall", "IntCeiling", "IntFloor"}

Unrecognised(surface_list) ==
    {i \in 1..Len(surface_list) : surface_list[i].surface_type \notin Recognised}

FirstUnrecognised(surface_list) ==
    CHOOSE i \in Unrecognised(surface_list) : \A j \in Unrecognised(surface_list) : i <= j

\* the build stopped at the first surface of unrecognised type: TypeError,
\* and Araum holds the areas of the surfaces up to that one
StoppedAtUnrecognised(z) ==
    /\ last_call.result = "TypeError"
    /\ Val(zones[z], "Araum")
           = SumSeq([i \in 1..FirstUnrecognised(zones[z].surface_list) |->
                         zones[z].surface_list[i].area])

\* C23: _VDI6007_params raises TypeError as soon as it meets a surface whose
\* surface_type is none of ExtWall, GroundFloor, Roof, IntWall, IntCeiling,
\* IntFloor: the surface is not skipped, and no build completes on a zone
\* that holds one.
C23_UnrecognisedTypeRaises ==
    \A z \in DOMAIN zones :
        Unrecognised(zones[z].surface_list) # {}
            => /\ "_VDI6007_params" \notin DOMAIN built[z]
               /\ last_call.op = "_VDI6007_params" => StoppedAtUnrecognised(z)

\* a build met the unrecognised surface after a recognised one and raised
C23_Witness ==
    /\ last_call.op = "_VDI6007_params"
    /\ last_call.result = "TypeError"
    /\ zones["z1"].surface_list = <<InnerWall, Shading>>

\* the areas the claim compares
OuterArea(surface_list) ==
    SumSeq([i \in 1..Len(surface_list) |->
                IF surface_list[i].surface_type \in {"ExtWall", "GroundFloor", "Roof"}
                THEN surface_list[i].opaque_area + surface_list[i].glazed_area ELSE 0])

InnerArea(surface_list) ==
    SumSeq([i \in 1..Len(surface_list) |->
                IF surface_list[i].surface_type \in {"IntWall", "IntCeiling", "IntFloor"}
                THEN surface_list[i].area ELSE 0])

\* eq 29, from the radiative resistances of the outer opaque and glazed parts
Eq29(surface_list) ==
    Frac(1, SumOver(surface_list, ExtTypes, alphaStr_opaque)
               + SumOver(surface_list, ExtTypes, alphaStr_glazed))

\* eq 31, from the radiative resistances of the inner surfaces
Eq31(surface_list) == Frac(1, SumOver(surface_list, IntTypes, alphaStr_opaque))

\* C24: in a completed _VDI6007_params, RalphaStrAWIW is that of eq. 29
\* exactly when the opaque and glazed area of the outer surfaces together
\* is not above the area of the inner surfaces, and that of eq. 31 exactly
\* when it is above.
C24_BranchByTotalArea ==
    \A z \in DOMAIN zones :
        "_VDI6007_params" \in DOMAIN built[z]
            => built[z]["_VDI6007_params"].RalphaStrAWIW
                   = IF OuterArea(zones[z].surface_list) <= InnerArea(zones[z].surface_list)
                     THEN Eq29(zones[z].surface_list)
                     ELSE Eq31(zones[z].surface_list)

\* RalphaKonAW parallel RalphaStrAWIW, for the RalphaStrAWIW of the build
ParallelOf(surface_list, RalphaStrAWIW) ==
    Frac(1, SumOver(surface_list, ExtTypes, alphaKon_opaque)
               + SumOver(surface_list, ExtTypes, alphaKon_glazed)
               + RalphaStrAWIW[2])

\* 1 / (alphaKonA * (total glazed + total opaque outer area))
LowerBound(surface_list) == Frac(1, alphaKonA * OuterArea(surface_list))

AtLeastThreshold(a) == a = Threshold \/ a[1] > 0

MaxWithThreshold(a) == IF a[1] <= 0 THEN Threshold ELSE a

NetworkAsClaimed(surface_list, n, R1AW) ==
    IF Below(n.RgesAW, LowerBound(surface_list))
    THEN /\ n.RrestAW = LowerBound(surface_list)
         /\ n.R1AW = MaxWithThreshold(
                         Minus(Minus(n.RgesAW, n.RrestAW),
                               ParallelOf(surface_list, n.RalphaStrAWIW)))
         /\ AtLeastThreshold(n.R1AW)
    ELSE /\ n.R1AW = R1AW
         /\ n.RrestAW = Minus(Minus(n.RgesAW, n.R1AW),
                              ParallelOf(surface_list, n.RalphaStrAWIW))

\* C25: when RgesAW is below RalphaGesAW_A, the build ends with RrestAW =
\* RalphaGesAW_A and R1AW the larger of RgesAW - RrestAW - (RalphaKonAW
\* parallel RalphaStrAWIW) and 1e-10; otherwise R1AW is the parallel of the
\* outer impedances, unchanged, and RrestAW = RgesAW - R1AW - (RalphaKonAW
\* parallel RalphaStrAWIW).
C25_ClampedBelowBound ==
    \A z \in DOMAIN zones :
        (/\ last_call.op = "_VDI6007_params"
         /\ last_call.result = "ok")
            => NetworkAsClaimed(zones[z].surface_list, built[z]["_VDI6007_params"],
                                last_call.args[1])

\* a build of a zone with a single-sheet roof ended with RrestAW at the
\* bound and R1AW at the threshold
C25_Witness ==
    /\ last_call.op = "_VDI6007_params"
    /\ last_call.result = "ok"
    /\ OuterSingle \in {zones["z1"].surface_list[i] : i \in 1..Len(zones["z1"].surface_list)}
    /\ built["z1"]["_VDI6007_params"].RrestAW = LowerBound(zones["z1"].surface_list)
    /\ built["z1"]["_VDI6007_params"].R1AW = Threshold

(***************************************************************************)
(* The radiant gains of calculate_zone_loads_VDI6007, with their values.   *)
(* A gain is a fraction <<n, d>>, d > 0, or NaN, what numpy leaves for     *)
(* 0 / 0.  The solar gain through the window of a surface at a time step   *)
(* is its glazed area times the irradiance sun[t].                         *)
(***************************************************************************)
NaN == <<"nan">>

RECURSIVE GCD(_, _)
GCD(a, b) == IF b = 0 THEN a ELSE GCD(b, a % b)

LCM(a, b) == (a \div GCD(a, b)) * b

\* n / d for d # 0, the denominator made positive
Ratio(n, d) == IF d < 0 THEN <<0 - n, 0 - d>> ELSE <<n, d>>

FAdd(a, b) ==
    IF a = NaN \/ b = NaN THEN NaN
    ELSE <<a[1] * (LCM(a[2], b[2]) \div a[2]) + b[1] * (LCM(a[2], b[2]) \div b[2]),
           LCM(a[2], b[2])>>

SunArgs == {[t \in Steps |-> 0], [t \in Steps |-> t]}

\* frame_factor * surface._glazed_area * (shgc * BRV * F_sh_w + ...)
window_gain(surface, sun, t) == surface.glazed_area * sun[t]

\* Q_il_str_A_iw and Q_il_str_A_aw after the surfaces from the i-th on
RECURSIVE Q_il_str_A(_, _, _, _, _)
Q_il_str_A(z, sun, t, i, acc) ==
    IF i > Len(z.surface_list) THEN acc
    ELSE IF IsWallOrRoof(z.surface_list[i]) /\ z.surface_list[i].has_window
    THEN Q_il_str_A(z, sun, t, i + 1,
             [iw |-> FAdd(acc.iw,
                          Ratio(window_gain(z.surface_list[i], sun, t)
                                    * (Val(z, "Araum") - Val(z, "Aaw")),
                                Val(z, "Araum") - z.surface_list[i].glazed_area)),
              aw |-> FAdd(acc.aw,
                          Ratio(window_gain(z.surface_list[i], sun, t)
                                    * (Val(z, "Aaw") - z.surface_list[i].glazed_area),
                                Val(z, "Araum") - z.surface_list[i].glazed_area))])
    ELSE Q_il_str_A(z, sun, t, i + 1, acc)

\* an element of a numpy array divided by a number: no exception for zero
array_over(n, d) == IF d = 0 THEN NaN ELSE Ratio(n, d)

\* Q_il_str_I * (self.Araum - self.Aaw) / self.Araum
Q_il_str_I_iw(z, Q_il_str_I, t) ==
    array_over(Q_il_str_I[t] * (Val(z, "Araum") - Val(z, "Aaw")), Val(z, "Araum"))

\* Q_il_str_I * self.Aaw / self.Araum
Q_il_str_I_aw(z, Q_il_str_I, t) ==
    array_over(Q_il_str_I[t] * Val(z, "Aaw"), Val(z, "Araum"))

\* self.Q_il_str_iw and self.Q_il_str_aw, r what the calculation left
Q_il_str(r, sun) ==
    IF r.result # "ok" THEN r
    ELSE EOut("ok",
              Put(Put(r.zone, "Q_il_str_iw",
                      [t \in Steps |->
                          FAdd(Q_il_str_A(r.zone, sun, t, 1,
                                          [iw |-> <<0, 1>>, aw |-> <<0, 1>>]).iw,
                               Q_il_str_I_iw(r.zone, r.zone.attr["radiative_load"], t))]),
                  "Q_il_str_aw",
                  [t \in Steps |->
                      FAdd(Q_il_str_A(r.zone, sun, t, 1,
                                      [iw |-> <<0, 1>>, aw |-> <<0, 1>>]).aw,
                           Q_il_str_I_aw(r.zone, r.zone.attr["radiative_load"], t))]),
              r.loads, r.ret)

(***************************************************************************)
(* SpecSplit: one zone over any list of surfaces; loads are attached,      *)
(* _VDI6007_params is built and calculate_zone_loads_VDI6007 is run, in    *)
(* any order.                                                              *)
(***************************************************************************)
SplitSurfaces == {WallGlazed, RoofGlazed, WallOpaque, Floor, IntWall}

InitSplit ==
    \E sl \in SeqsUpTo(SplitSurfaces, MaxSurfaces) :
        /\ zones = ("z1" :> ThermalZone_init(sl, Num(2), Num(2)))
        /\ built = ("z1" :> NoBuild)
        /\ loads = [l \in {"occupancy", "lights"} |-> LoadCatalog[l]]
        /\ sched = NoSchedule
        /\ surfaces = Idle
        /\ materials = Idle
        /\ last_call = Call("ThermalZone", "z1", <<2, 2>>, "ok", <<>>, {})

SplitDone(z, sun, r) ==
    /\ zones' = [zones EXCEPT ![z] = r.zone]
    /\ loads' = r.loads
    /\ last_call' = Call("calculate_zone_loads_VDI6007", z, <<sun>>, r.result, r.ret, {})
    /\ UNCHANGED <<built, sched, surfaces, materials>>

CalculateSplit(z) ==
    \E sun \in SunArgs :
        SplitDone(z, sun,
                  Q_il_str(calculate_zone_loads_VDI6007(zones[z], loads, "WeatherFile"),
                           sun))

NextSplit ==
    \/ \E z \in DOMAIN zones : AddInternalLoad(z)
    \/ \E z \in DOMAIN zones : VDI6007Params(z)
    \/ \E z \in DOMAIN zones : CalculateSplit(z)

SpecSplit == InitSplit /\ [][NextSplit]_vars

\* the solar gain through the windows of the walls and roofs of a zone
RECURSIVE WindowGains(_, _, _)
WindowGains(surface_list, sun, t) ==
    IF surface_list = <<>> THEN 0
    ELSE (IF Head(surface_list).surface_type \in {"ExtWall", "Roof"}
             /\ Head(surface_list).has_window
          THEN Head(surface_list).glazed_area * sun[t] ELSE 0)
         + WindowGains(Tail(surface_list), sun, t)

\* a fraction equals a whole number
Equals(a, n) == a # NaN /\ a[1] = n * a[2]

Conserved(z, sun) ==
    \A t \in Steps :
        Equals(FAdd(zones[z].attr["Q_il_str_iw"][t], zones[z].attr["Q_il_str_aw"][t]),
               zones[z].attr["radiative_load"][t]
                   + WindowGains(zones[z].surface_list, sun, t))

\* C26: after calculate_zone_loads_VDI6007, at every time step Q_il_str_iw +
\* Q_il_str_aw is the radiant internal gain of the zone plus the solar gain
\* through the windows of its ExtWall and Roof surfaces.
C26_RadiantGainsConserved ==
    (/\ last_call.op = "calculate_zone_loads_VDI6007"
     /\ last_call.result = "ok")
        => Conserved(last_call.obj, last_call.args[1])

\* the derived properties of a Material agree with the stored ones
DerivedAgree(o) ==
    /\ o.resistance[1] * o.cond = o.thick * o.resistance[2]
    /\ o.capacity = o.thick * o.dens * o.spec_heat

\* C27: in every state reached by the construction of a Material and any
\* assignments to its properties, accepted or refused, resistance is thick /
\* cond and capacity is thick * dens * spec_heat of the stored thick, cond,
\* dens and spec_heat.
C27_DerivedFollowStored ==
    \A m \in DOMAIN materials :
        (materials[m].exists /\ materials[m].cls = "Material") => DerivedAgree(materials[m])

(***************************************************************************)
(* SpecVentilation: a NaturalVentilation of any unit, asked for its air    *)
(* and vapour flow rates with any area and volume, supplied or not.        *)
(***************************************************************************)
MaxNominalFlow == 2     \* largest nominal_value of the ventilation object

\* the keys of the dict of _get_absolute_value_nominal
VentilationUnits == {"Vol/h", "kg/s", "kg/(m2 s)", "m3/s", "m3/(m2 s)"}

InitVentilation ==
    \E unit \in VentilationUnits, nominal_value \in 1..MaxNominalFlow :
        /\ zones = Idle
        /\ built = Idle
        /\ loads = [l \in {"vent"} |-> NaturalVentilation(unit, nominal_value)]
        /\ sched = NoSchedule
        /\ surfaces = Idle
        /\ materials = Idle
        /\ last_call = Call("NaturalVentilation", "vent", <<unit, nominal_value>>, "ok", <<>>, {})

NextVentilation ==
    \/ \E l \in Ventilations(loads) : GetAirFlowRate(l)
    \/ \E l \in Ventilations(loads) : GetVapourFlowRate(l)

SpecVentilation == InitVentilation /\ [][NextVentilation]_vars

AreaSpecific(l) == l.unit \in {"kg/(m2 s)", "m3/(m2 s)"}
VolumeSpecific(l) == l.unit = "Vol/h"
AbsoluteUnit(l) == l.unit \in {"kg/s", "m3/s"}

\* a quantity the unit of the object needs was not supplied
RequiredMissing(l, area, volume) ==
    \/ AreaSpecific(l) /\ area.is_none
    \/ VolumeSpecific(l) /\ volume.is_none

\* nominal_value, times the air density for m3/s, in 1/(10 * 3600) kg/s
AbsoluteFlow(l) ==
    IF l.unit = "kg/s" THEN l.nominal_value * 10 * SecondsPerHour
    ELSE l.nominal_value * AirDensity10 * SecondsPerHour

AirFlowAsClaimed(l, area, volume) ==
    /\ last_call.result # "ok" => RequiredMissing(l, area, volume)
    /\ AbsoluteUnit(l) => /\ last_call.result = "ok"
                          /\ last_call.ret = Scale(l.schedule, AbsoluteFlow(l))

\* C28: get_air_flow_rate raises only when a quantity the unit of the object
\* requires (an area for kg/(m2 s) and m3/(m2 s), a volume for Vol/h) is
\* missing; with kg/s or m3/s it returns nominal_value * schedule (times the
\* air density for m3/s) whether or not an area or a volume is supplied.
C28_RaisesOnlyWhenRequiredMissing ==
    last_call.op = "get_air_flow_rate"
        => AirFlowAsClaimed(loads[last_call.obj], last_call.args[1], last_call.args[2])

\* the same, over the calls that supply both an area and a volume
C28_WithBothSupplied ==
    (/\ last_call.op = "get_air_flow_rate"
     /\ ~last_call.args[1].is_none
     /\ ~last_call.args[2].is_none)
        => AirFlowAsClaimed(loads[last_call.obj], last_call.args[1], last_call.args[2])

(***************************************************************************)
(* SpecUse: one Schedule, constructed with any type, handed as the         *)
(* schedule of an InternalLoad of each class and of a NaturalVentilation.  *)
(* The objects hold a reference to the Schedule, not a copy.               *)
(***************************************************************************)
UseClasses == InternalLoadClasses \cup {"NaturalVentilation"}

UseTypes == unit_type \cup {"Percent", NotStr}
\* arrays of the length of the year, one value repeated
UseArrays == {Array("numeric", 1, [t \in Steps |-> v]) : v \in ScheduleValues}

\* an argument that is not a Schedule
NotSchedule == [exists |-> FALSE]

UnbuiltLoad(cls) == [cls |-> cls, exists |-> FALSE, schedule |-> ""]

\* InternalLoad.schedule, the setter
InternalLoad_set_schedule(l, value) ==
    IF ~value.exists THEN Out("ValueError", l, <<>>)
    ELSE IF value.schedule_type \notin {"Dimensionless", "Percent"}
    THEN Out("InvalidHeatGainSchedule", l, <<>>)
    ELSE Out("ok", [l EXCEPT !.exists = TRUE, !.schedule = "schedule"], <<>>)

\* NaturalVentilation.schedule, the setter
NaturalVentilation_set_schedule(l, value) ==
    IF ~value.exists THEN Out("ValueError", l, <<>>)
    ELSE IF value.schedule_type \notin {"dimensionless", "percent"}
    THEN Out("InvalidScheduleType", l, <<>>)
    ELSE Out("ok", [l EXCEPT !.exists = TRUE, !.schedule = "schedule"], <<>>)

load_set_schedule(l, value) ==
    IF l.cls = "NaturalVentilation" THEN NaturalVentilation_set_schedule(l, value)
    ELSE InternalLoad_set_schedule(l, value)

InitUse ==
    /\ zones = Idle
    /\ built = Idle
    /\ loads = [c \in UseClasses |-> UnbuiltLoad(c)]
    /\ surfaces = Idle
    /\ materials = Idle
    /\ \E schedule_type \in UseTypes, schedule \in UseArrays,
          lower_limit \in LimitArgs, upper_limit \in LimitArgs :
           Constructed(<<schedule_type, schedule, lower_limit, upper_limit>>,
                       Schedule_init(schedule_type, schedule, lower_limit, upper_limit))

ScheduleValueArgs == {NotSchedule} \cup (IF sched.exists THEN {sched} ELSE {})

\* the state a constructor or an assignment of a schedule leaves
UseDone(c, name, value, r) ==
    /\ loads' = [loads EXCEPT ![c] = r.load]
    /\ last_call' = Call(name, c, <<value>>, r.result, <<>>, {})
    /\ UNCHANGED <<zones, built, sched, surfaces, materials>>

\* People(...), ElectricLoad(...), Lights(...), NaturalVentilation(...): the
\* other arguments valid
ConstructLoad(c) ==
    /\ ~loads[c].exists
    /\ \E value \in ScheduleValueArgs :
           UseDone(c, "__init__", value, load_set_schedule(UnbuiltLoad(c), value))

\* o.schedule = value on an object that exists
AssignLoadSchedule(c) ==
    /\ loads[c].exists
    /\ \E value \in ScheduleValueArgs :
           UseDone(c, "schedule", value, load_set_schedule(loads[c], value))

NextUse ==
    \/ \E c \in UseClasses : ConstructLoad(c)
    \/ \E c \in UseClasses : AssignLoadSchedule(c)

SpecUse == InitUse /\ [][NextUse]_vars

\* a Schedule was handed to a load object
ScheduleHanded == last_call.op \in {"__init__", "schedule"} /\ last_call.args[1].exists

AcceptedAsClaimed ==
    last_call.result = "ok" <=> last_call.args[1].schedule_type \in {"dimensionless", "percent"}

\* C29: every Schedule that was constructed with the dimensionless or the
\* percent type is accepted as the schedule of a People, an ElectricLoad, a
\* Lights and a NaturalVentilation object; one of type temperature, capacity
\* or power is refused by all of them.
C29_DimensionlessAndPercentAccepted == ScheduleHanded => AcceptedAsClaimed

\* the same, for NaturalVentilation alone
C29_ForVentilation ==
    (ScheduleHanded /\ last_call.obj = "NaturalVentilation") => AcceptedAsClaimed

\* the same, for the refusals alone
C29_OthersRefused ==
    (ScheduleHanded /\ last_call.args[1].schedule_type \in {"temperature", "capacity", "power"})
        => last_call.result # "ok"

(***************************************************************************)
(* SpecAttach: one zone and the load objects; any objects are handed to    *)
(* add_internal_load and to add_natural_ventilation.                       *)
(***************************************************************************)
IsNaturalVentilation(L, id) == id \in DOMAIN L /\ L[id].cls = "NaturalVentilation"

\* the arguments are checked and appended one by one
RECURSIVE add_natural_ventilation(_, _, _)
add_natural_ventilation(z, L, natural_ventilation) ==
    IF natural_ventilation = <<>> THEN ZOut("ok", z)
    ELSE IF ~IsNaturalVentilation(L, Head(natural_ventilation)) THEN ZOut("TypeError", z)
    ELSE add_natural_ventilation(
             [z EXCEPT !.natural_ventilation_list = Append(@, Head(natural_ventilation))],
             L, Tail(natural_ventilation))

InitAttach ==
    /\ zones = [z \in {"z1"} |-> ThermalZone_init(<<>>, Num(2), Num(2))]
    /\ built = [z \in {"z1"} |-> NoBuild]
    /\ loads = [l \in {"occupancy", "lights", "infiltration"} |-> LoadCatalog[l]]
    /\ sched = NoSchedule
    /\ surfaces = Idle
    /\ materials = Idle
    /\ last_call = Call("ThermalZone", "z1", <<2, 2>>, "ok", <<>>, {})

AddNaturalVentilation(z) ==
    \E natural_ventilation \in SeqsUpTo(DOMAIN loads, MaxLoads) :
        /\ Len(zones[z].natural_ventilation_list) + Len(natural_ventilation) <= MaxLoads
        /\ zones' = [zones EXCEPT
                        ![z] = add_natural_ventilation(@, loads, natural_ventilation).zone]
        /\ last_call' = Call("add_natural_ventilation", z, natural_ventilation,
                             add_natural_ventilation(zones[z], loads, natural_ventilation).result,
                             <<>>, {})
        /\ UNCHANGED <<built, loads, sched, surfaces, materials>>

NextAttach ==
    \/ \E z \in DOMAIN zones : AddInternalLoad(z)
    \/ \E z \in DOMAIN zones : AddNaturalVentilation(z)

SpecAttach == InitAttach /\ [][NextAttach]_vars

AllOfType(args, cls) == \A i \in 1..Len(args) : loads[args[i]].cls \in cls

\* the call that made the step raised exactly when an argument is not of the
\* classes cls, and then left the list as it was; otherwise it appended the
\* arguments in their order
AllOrNothing(before, after, args, result, cls) ==
    /\ result = "TypeError" <=> ~AllOfType(args, cls)
    /\ result = "TypeError" => after = before
    /\ result = "ok" => after = before \o args

AttachAsClaimed(z) ==
    /\ last_call'.op = "add_internal_load"
           => AllOrNothing(zones[z].internal_loads_list, zones'[z].internal_loads_list,
                           last_call'.args, last_call'.result, InternalLoadClasses)
    /\ last_call'.op = "add_natural_ventilation"
           => AllOrNothing(zones[z].natural_ventilation_list,
                           zones'[z].natural_ventilation_list,
                           last_call'.args, last_call'.result, {"NaturalVentilation"})

\* C30: a call of add_internal_load or add_natural_ventilation with an
\* argument that is not of the required type raises TypeError and leaves the
\* list of the zone as it was before the call; a call whose arguments are all
\* valid appends them all, in argument order, after the existing entries.
C30_AllOrNothing == [][AttachAsClaimed("z1")]_vars

\* the same, over the calls whose first argument decides: it is of the wrong
\* type, or no argument is
FirstDecides(args, cls) == args # <<>> /\ (AllOfType(args, cls) \/ loads[args[1]].cls \notin cls)

C30_WhenFirstDecides ==
    [][(\/ /\ last_call'.op = "add_internal_load"
           /\ FirstDecides(last_call'.args, InternalLoadClasses)
        \/ /\ last_call'.op = "add_natural_ventilation"
           /\ FirstDecides(last_call'.args, {"NaturalVentilation"}))
          => AttachAsClaimed("z1")]_vars

====
